---------------------------- MODULE Spec2Model ----------------------------
(***************************************************************************)
(* State-machine model of carbon-feed-hub: the ConnectionManager           *)
(* (lib/connection.ts), the carbon and weather ingesters (ingesters/), the *)
(* logger and aggregator consumers, and the part of the broker they see    *)
(* (topic exchange, feed queues, dead-letter queue).                       *)
(*                                                                         *)
(* Every process owns one ConnectionManager (the module-level singleton),  *)
(* so the manager's state is indexed by process.  An action is the code    *)
(* that runs between two awaits of one async function, or one event        *)
(* handler: JavaScript runs each of them to completion.                    *)
(***************************************************************************)
EXTENDS Integers, Sequences, FiniteSets, TLC

(***************************************************************************)
(* Bounds of the model and constants of the program                        *)
(***************************************************************************)
\* connections one process may open during a run
MaxConns == 2
\* channels one process may open during a run
MaxChans == 2
\* envelope ids other publishers use, and messages they send
MaxIds == 1
MaxSent == 2
\* envelopes the ingester builds, and consecutive failures of one source
MaxEnvelopes == 2
MaxFailures == 2
\* consecutive failures for which the backoff delay is tabulated
MaxBackoffSteps == 8

\* the option maxRetries of the ConnectionManager (10 when not given), kept
\* small so that the retry loop runs to its end
maxRetries == 2
\* defaults of the options initialRetryDelay and maxRetryDelay
initialRetryDelay == 1000
maxRetryDelay == 30000

\* one process per entry point; "client" is a process that drives the
\* manager's public methods directly, in any interleaving
ClientProc == "client"
CarbonProc == "carbon"
LoggerProc == "logger"
AggProc == "agg"
\* a second instance of the aggregator, for the runs with competing consumers
AggProc2 == "agg2"
WeatherProc == "weather"
Procs == {ClientProc, CarbonProc, LoggerProc, AggProc, AggProc2, WeatherProc}

\* pending async calls on a manager: two caller slots, and the call that
\* handleDisconnect makes in the background
BgSlot == "bg"
CallerSlots == {"a", "b"}
Slots == CallerSlots \cup {BgSlot}

ConnIds == 1..MaxConns
ChanIds == 1..MaxChans

VARIABLES
  proc,        \* proc[p]: the fields of p's ConnectionManager and its pending calls
  conns,       \* conns[p][c]: the transport state of connection c of process p
  chans,       \* chans[p][h]: the state of channel h of process p and its connection
  brokerUp,    \* whether amqp.connect can reach the broker
  topo,        \* the exchanges, queues and bindings declared on the broker
  queues,      \* queues[q]: the messages waiting in queue q, oldest first
  subs,        \* subs[p]: the subscription the broker holds for consumer process p
  unacked,     \* unacked[p]: the deliveries to p that are not acknowledged yet
  con,         \* con[p]: the module state of consumer process p and where its main is
  lastHandled, \* the last delivery a handler decided on, and its decision
  effects,     \* effects[p][id]: how often p's handler processed envelope id
  ing,         \* the module state of the carbon ingester and where its functions are
  sent,        \* how many messages publishers other than the ingester have sent
  wx           \* the module state of the weather ingester and where its functions are

mgrVars == <<proc, conns, chans, brokerUp>>
brokerVars == <<topo, queues, subs, unacked>>
conVars == <<con, lastHandled, effects>>
appVars == <<topo, queues, subs, unacked, con, lastHandled, effects, ing, sent, wx>>
vars == <<proc, conns, chans, brokerUp, topo, queues, subs, unacked, con,
          lastHandled, effects, ing, sent, wx>>

(***************************************************************************)
(* Helpers                                                                 *)
(***************************************************************************)
Min(a, b) == IF a <= b THEN a ELSE b

RECURSIVE Pow2(_)
Pow2(n) == IF n <= 0 THEN 1 ELSE 2 * Pow2(n - 1)

\* a call slot: op is the method, pc the await it is suspended at, arg the
\* connection, channel or delay that await is about, res/val its outcome
NoCall == [op |-> "none", pc |-> "idle", arg |-> 0, res |-> "none", val |-> 0]

NewCall(op) == [NoCall EXCEPT !.op = op]

SlotFree(st, s) == st.calls[s].pc = "idle"

\* no settled call is waiting for its caller: the continuation of an await
\* runs as a microtask, before any timer, I/O completion or event
Quiescent(st) == \A s \in Slots : st.calls[s].pc # "done"

\* the promise of a call settles
Resolve(call, res, val) == [NoCall EXCEPT !.pc = "done", !.res = res, !.val = val]
Reject(call, err) == [NoCall EXCEPT !.pc = "done", !.res = err]

UsedConns(p) == {c \in ConnIds : conns[p][c] # "none"}
UsedChans(p) == {h \in ChanIds : chans[p][h].state # "none"}
FreshConn(p) == CHOOSE c \in ConnIds \ UsedConns(p) : \A d \in ConnIds \ UsedConns(p) : c <= d
FreshChan(p) == CHOOSE h \in ChanIds \ UsedChans(p) : \A g \in ChanIds \ UsedChans(p) : h <= g

\* a channel can carry a publish, a consume or an ack
ChanLive(p, h) ==
  /\ h \in ChanIds
  /\ chans[p][h].state = "open"
  /\ conns[p][chans[p][h].conn] = "open"

(***************************************************************************)
(* ConnectionManager                                                       *)
(***************************************************************************)
NewManager ==
  [connection |-> 0, channel |-> 0, isConnecting |-> FALSE, isClosed |-> FALSE,
   retryCount |-> 0, connectionListeners |-> {}, errorListeners |-> {},
   calls |-> [s \in Slots |-> NoCall]]

\* a backoff whose exponent is the count itself
calculateBackoffNextPower(retryCount) ==
  Min(initialRetryDelay * Pow2(retryCount), maxRetryDelay)

\* calculateBackoff(): reads this.retryCount
calculateBackoff(retryCount) ==
  Min(initialRetryDelay * Pow2(retryCount - 1), maxRetryDelay)

\* connect() returned conn to the call in slot s: a getChannel call goes on
\* to connection.createChannel(), a connect call is settled
ConnectReturns(call, conn) ==
  IF call.op = "getChannel"
    THEN [call EXCEPT !.pc = "create", !.arg = conn]
    ELSE Resolve(call, "conn", conn)

\* the head of the while loop of connect()
LoopTest(st, s) ==
  IF st.retryCount <= maxRetries /\ ~st.isClosed
    THEN [st EXCEPT !.calls[s].pc = "attempt", !.calls[s].arg = 0]
    ELSE [st EXCEPT !.calls[s] = Reject(@, "aborted")]

\* a connect() without the early return of the held connection
connectAlways(st, s) ==
  IF st.isConnecting
    THEN [st EXCEPT !.calls[s].pc = "wait",
                    !.connectionListeners = @ \cup {s},
                    !.errorListeners = @ \cup {s}]
  ELSE LoopTest([st EXCEPT !.isConnecting = TRUE, !.isClosed = FALSE], s)

\* a connect() that enters the retry loop whether or not one is running
connectUnguarded(st, s) ==
  IF st.connection # 0
    THEN [st EXCEPT !.calls[s] = ConnectReturns(@, st.connection)]
  ELSE LoopTest([st EXCEPT !.isConnecting = TRUE, !.isClosed = FALSE], s)

\* connect(), up to its first await, for the call in slot s
connect(st, s) ==
  IF st.connection # 0
    THEN [st EXCEPT !.calls[s] = ConnectReturns(@, st.connection)]
  ELSE IF st.isConnecting
    THEN [st EXCEPT !.calls[s].pc = "wait",
                    !.connectionListeners = @ \cup {s},
                    !.errorListeners = @ \cup {s}]
  ELSE LoopTest([st EXCEPT !.isConnecting = TRUE, !.isClosed = FALSE], s)

\* a call of connect() would enter the retry loop
StartsLoop(st) == st.connection = 0 /\ ~st.isConnecting

\* a success path that returns to its own caller and calls no listener
connectSucceededAlone(st, s, conn) ==
  [st EXCEPT
     !.connection = conn,
     !.retryCount = 0,
     !.isConnecting = FALSE,
     !.connectionListeners = {},
     !.calls[s] = ConnectReturns(st.calls[s], conn)]

\* the loop's attempt succeeded with connection conn
connectSucceeded(st, s, conn) ==
  [st EXCEPT
     !.connection = conn,
     !.retryCount = 0,
     !.isConnecting = FALSE,
     !.connectionListeners = {},
     !.calls = [t \in Slots |->
        IF t = s THEN ConnectReturns(st.calls[s], conn)
        ELSE IF t \in st.connectionListeners /\ st.calls[t].pc = "wait"
          THEN ConnectReturns(st.calls[t], conn)
        ELSE st.calls[t]]]

\* the loop's attempt failed
connectFailed(st, s) ==
  LET n == st.retryCount + 1
      delay == calculateBackoff(n)
  IN IF n > maxRetries
       THEN [st EXCEPT
               !.retryCount = n,
               !.isConnecting = FALSE,
               !.errorListeners = {},
               !.calls = [t \in Slots |->
                  IF t = s THEN Reject(st.calls[s], "exhausted")
                  ELSE IF t \in st.errorListeners /\ st.calls[t].pc = "wait"
                    THEN Reject(st.calls[t], "exhausted")
                  ELSE st.calls[t]]]
       ELSE [st EXCEPT !.retryCount = n,
                       !.calls[s].pc = "sleep",
                       !.calls[s].arg = delay]

\* a handleDisconnect that drops the connection and the channel and leaves
\* reconnecting to the next caller
handleDisconnectNoReconnect(st) ==
  [st EXCEPT !.connection = 0, !.channel = 0]

\* handleDisconnect(): the connect() it calls uses the background slot; when
\* that slot already holds a call, the new call can only register listeners
\* whose promise nobody but the log reads
handleDisconnect(st) ==
  LET st1 == [st EXCEPT !.connection = 0, !.channel = 0]
  IN IF st1.isClosed THEN st1
     ELSE IF SlotFree(st1, BgSlot)
       THEN connect([st1 EXCEPT !.calls[BgSlot] = NewCall("connect")], BgSlot)
     ELSE st1

\* handleDisconnect would enter the retry loop
DisconnectStartsLoop(st) == ~st.isClosed /\ ~st.isConnecting

\* getChannel(), up to its first await
getChannel(st, s) ==
  IF st.channel # 0
    THEN [st EXCEPT !.calls[s] = Resolve(@, "chan", st.channel)]
    ELSE connect(st, s)

\* close(), up to its first await
CloseConnectionStep(st, s) ==
  IF st.connection # 0
    THEN [st EXCEPT !.calls[s].pc = "closeConn", !.calls[s].arg = st.connection]
    ELSE [st EXCEPT !.calls[s] = Resolve(@, "closed", 0)]

close(st, s) ==
  LET st1 == [st EXCEPT !.isClosed = TRUE]
  IN IF st1.channel # 0
       THEN [st1 EXCEPT !.calls[s].pc = "closeCh", !.calls[s].arg = st1.channel]
       ELSE CloseConnectionStep(st1, s)

\* channel handlers that treat the loss of the channel as a disconnect
onChannelEventDisconnects(st) ==
  [st EXCEPT !.connection = 0, !.channel = 0]

\* the 'error' and 'close' handlers of a channel
onChannelEvent(st) == [st EXCEPT !.channel = 0]

\* the 'error' handler of a connection
onConnectionError(st) == handleDisconnect(st)

\* the 'close' handler of a connection
onConnectionClose(st) == IF ~st.isClosed THEN handleDisconnect(st) ELSE st

\* the channels of connection c close with it
CloseChansOf(p, c) ==
  [h \in ChanIds |->
     IF chans[p][h].state = "open" /\ chans[p][h].conn = c
       THEN [chans[p][h] EXCEPT !.state = "closed"]
       ELSE chans[p][h]]

HasOpenChan(p, c) == \E h \in ChanIds : chans[p][h].state = "open" /\ chans[p][h].conn = c

(***************************************************************************)
(* Steps of the manager's async methods                                    *)
(***************************************************************************)
\* a call that may enter the retry loop is made only while the process may
\* still open a connection
ConnBudget(p) == Cardinality(UsedConns(p)) < MaxConns

PendingChannelCalls(p) ==
  {s \in Slots : proc[p].calls[s].op = "getChannel" /\ ~SlotFree(proc[p], s)}

ChanBudget(p) == Cardinality(UsedChans(p)) + Cardinality(PendingChannelCalls(p)) < MaxChans

\* await amqp.connect(url) settles for the loop of slot s
MgrAttemptResolves(p, s) ==
  /\ Quiescent(proc[p])
  /\ proc[p].calls[s].pc = "attempt"
  /\ IF brokerUp
       THEN /\ UsedConns(p) # ConnIds
            /\ proc' = [proc EXCEPT ![p] = connectSucceeded(@, s, FreshConn(p))]
            /\ conns' = [conns EXCEPT ![p][FreshConn(p)] = "open"]
       ELSE /\ proc' = [proc EXCEPT ![p] = connectFailed(@, s)]
            /\ UNCHANGED conns
  /\ UNCHANGED <<chans, brokerUp>>
  /\ UNCHANGED appVars

\* await this.sleep(delay) settles for the loop of slot s
MgrSleepDone(p, s) ==
  /\ Quiescent(proc[p])
  /\ proc[p].calls[s].pc = "sleep"
  /\ proc' = [proc EXCEPT ![p] = LoopTest(@, s)]
  /\ UNCHANGED <<conns, chans, brokerUp>>
  /\ UNCHANGED appVars

\* await connection.createChannel() settles for the getChannel call of slot s
MgrCreateChannelResolves(p, s) ==
  /\ Quiescent(proc[p])
  /\ proc[p].calls[s].pc = "create"
  /\ LET c == proc[p].calls[s].arg
     IN IF conns[p][c] = "open"
          THEN /\ UsedChans(p) # ChanIds
               /\ chans' = [chans EXCEPT ![p][FreshChan(p)] = [state |-> "open", conn |-> c]]
               /\ proc' = [proc EXCEPT ![p].channel = FreshChan(p),
                                       ![p].calls[s] = Resolve(@, "chan", FreshChan(p))]
          ELSE /\ proc' = [proc EXCEPT ![p].calls[s] = Reject(@, "failed")]
               /\ UNCHANGED chans
  /\ UNCHANGED <<conns, brokerUp>>
  /\ UNCHANGED appVars

\* await this.channel.close() settles (an error is swallowed) and close()
\* runs on to its next await
MgrCloseChannelResolves(p, s) ==
  /\ Quiescent(proc[p])
  /\ proc[p].calls[s].pc = "closeCh"
  /\ LET h == proc[p].calls[s].arg
         wasOpen == chans[p][h].state = "open"
         st1 == IF wasOpen THEN onChannelEvent(proc[p]) ELSE proc[p]
         st2 == [st1 EXCEPT !.channel = 0]
     IN /\ chans' = [chans EXCEPT ![p][h].state = "closed"]
        /\ proc' = [proc EXCEPT ![p] = CloseConnectionStep(st2, s)]
  /\ UNCHANGED <<conns, brokerUp>>
  /\ UNCHANGED appVars

\* await this.connection.close() settles (an error is swallowed): the
\* connection's channels and the connection emit 'close', then close() ends
MgrCloseConnectionResolves(p, s) ==
  /\ Quiescent(proc[p])
  /\ proc[p].calls[s].pc = "closeConn"
  /\ LET c == proc[p].calls[s].arg
         wasOpen == conns[p][c] \in {"open", "errored"}
         st1 == IF wasOpen /\ HasOpenChan(p, c) THEN onChannelEvent(proc[p]) ELSE proc[p]
         st2 == IF wasOpen THEN onConnectionClose(st1) ELSE st1
         st3 == [st2 EXCEPT !.connection = 0, !.calls[s] = Resolve(@, "closed", 0)]
     IN /\ (wasOpen /\ DisconnectStartsLoop(st1)) => ConnBudget(p)
        /\ conns' = [conns EXCEPT ![p][c] = "closed"]
        /\ chans' = [chans EXCEPT ![p] = CloseChansOf(p, c)]
        /\ proc' = [proc EXCEPT ![p] = st3]
  /\ UNCHANGED brokerUp
  /\ UNCHANGED appVars

(***************************************************************************)
(* Events the transport raises on its own                                  *)
(***************************************************************************)
\* connection c emits 'error'; its 'close' follows later
ConnError(p, c) ==
  /\ Quiescent(proc[p])
  /\ conns[p][c] = "open"
  /\ DisconnectStartsLoop(proc[p]) => ConnBudget(p)
  /\ conns' = [conns EXCEPT ![p][c] = "errored"]
  /\ proc' = [proc EXCEPT ![p] = onConnectionError(@)]
  /\ UNCHANGED <<chans, brokerUp>>
  /\ UNCHANGED appVars

\* connection c emits 'close' without close() having been called on it:
\* its channels emit 'close' first
ConnClosed(p, c) ==
  /\ Quiescent(proc[p])
  /\ conns[p][c] \in {"open", "errored"}
  /\ LET st1 == IF HasOpenChan(p, c) THEN onChannelEvent(proc[p]) ELSE proc[p]
     IN /\ DisconnectStartsLoop(st1) => ConnBudget(p)
        /\ proc' = [proc EXCEPT ![p] = onConnectionClose(st1)]
  /\ conns' = [conns EXCEPT ![p][c] = "closed"]
  /\ chans' = [chans EXCEPT ![p] = CloseChansOf(p, c)]
  /\ UNCHANGED brokerUp
  /\ UNCHANGED appVars

\* channel h fails on its own: it emits 'error' and 'close'
ChanLost(p, h) ==
  /\ Quiescent(proc[p])
  /\ chans[p][h].state = "open"
  /\ chans' = [chans EXCEPT ![p][h].state = "closed"]
  /\ proc' = [proc EXCEPT ![p] = onChannelEvent(@)]
  /\ UNCHANGED <<conns, brokerUp>>
  /\ UNCHANGED appVars

BrokerStops ==
  /\ brokerUp
  /\ brokerUp' = FALSE
  /\ UNCHANGED <<proc, conns, chans>>
  /\ UNCHANGED appVars

BrokerStarts ==
  /\ ~brokerUp
  /\ brokerUp' = TRUE
  /\ UNCHANGED <<proc, conns, chans>>
  /\ UNCHANGED appVars

(***************************************************************************)
(* A client of the manager's public methods                                *)
(***************************************************************************)
CallConnect(p, s) ==
  /\ Quiescent(proc[p])
  /\ SlotFree(proc[p], s)
  /\ StartsLoop(proc[p]) => ConnBudget(p)
  /\ proc' = [proc EXCEPT ![p] = connect([@ EXCEPT !.calls[s] = NewCall("connect")], s)]
  /\ UNCHANGED <<conns, chans, brokerUp>>
  /\ UNCHANGED appVars

CallGetChannel(p, s) ==
  /\ Quiescent(proc[p])
  /\ SlotFree(proc[p], s)
  /\ (proc[p].channel = 0 /\ StartsLoop(proc[p])) => ConnBudget(p)
  /\ proc[p].channel = 0 => ChanBudget(p)
  /\ proc' = [proc EXCEPT ![p] = getChannel([@ EXCEPT !.calls[s] = NewCall("getChannel")], s)]
  /\ UNCHANGED <<conns, chans, brokerUp>>
  /\ UNCHANGED appVars

CallClose(p, s) ==
  /\ Quiescent(proc[p])
  /\ SlotFree(proc[p], s)
  /\ proc' = [proc EXCEPT ![p] = close([@ EXCEPT !.calls[s] = NewCall("close")], s)]
  /\ UNCHANGED <<conns, chans, brokerUp>>
  /\ UNCHANGED appVars

\* the caller of a settled call resumes and reads its outcome; for the
\* background call that is the .catch() of handleDisconnect
CallerResumes(p, s) ==
  /\ proc[p].calls[s].pc = "done"
  /\ proc' = [proc EXCEPT ![p].calls[s] = NoCall]
  /\ UNCHANGED <<conns, chans, brokerUp>>
  /\ UNCHANGED appVars

(***************************************************************************)
(* Messages (lib/messages.ts)                                              *)
(***************************************************************************)
\* routing keys and message types, as their dot-separated segments
CARBON_INTENSITY == <<"feed", "carbon", "intensity">>
CARBON_GENERATION == <<"feed", "carbon", "generation">>
WEATHER_CURRENT == <<"feed", "weather", "current">>
WEATHER_FORECAST == <<"feed", "weather", "forecast">>
\* a key no constant of the program names
CARBON_REGIONAL == <<"feed", "carbon", "regional">>

MESSAGE_TYPES == {CARBON_INTENSITY, CARBON_GENERATION, WEATHER_CURRENT}
ROUTING_KEYS == {CARBON_INTENSITY, CARBON_GENERATION, WEATHER_CURRENT, WEATHER_FORECAST}

CARBON_INGESTER == "carbon-ingester"
WEATHER_INGESTER == "weather-ingester"

\* the payload is "valid" or "absent" (the envelope has no usable data field)
createEnvelope(id, source, type, data) ==
  [id |-> id, source |-> source, type |-> type, data |-> data]

createCarbonIntensityMessage(id, data) ==
  createEnvelope(id, CARBON_INGESTER, CARBON_INTENSITY, data)

createCarbonGenerationMessage(id, data) ==
  createEnvelope(id, CARBON_INGESTER, CARBON_GENERATION, data)

createWeatherCurrentMessage(id, data) ==
  createEnvelope(id, WEATHER_INGESTER, WEATHER_CURRENT, data)

\* a message body is text: JSON.stringify writes an envelope into it, and
\* JSON.parse reads one back or throws
NoEnvelope == [id |-> 0, source |-> "", type |-> <<>>, data |-> "absent"]
Garbage == [parseable |-> FALSE, env |-> NoEnvelope]
JSONstringify(envelope) == [parseable |-> TRUE, env |-> envelope]
JSONparses(body) == body.parseable
JSONparse(body) == body.env

NoDeath == [reason |-> "none", queue |-> "none"]

\* a message as the broker holds it: routing key, properties, body, the
\* x-retry-count header (0 when absent) and the x-death header
Message(key, messageId, appId, body) ==
  [key |-> key, messageId |-> messageId, appId |-> appId, deliveryMode |-> 2,
   body |-> body, retry |-> 0, death |-> NoDeath, redelivered |-> FALSE]

(***************************************************************************)
(* Topology (lib/topology.ts) and the broker's routing                     *)
(***************************************************************************)
EXCHANGES_TOPIC == "feeds.topic"
EXCHANGES_DLX == "feeds.dlx"
QUEUES_ALL == "feeds.all"
QUEUES_CARBON == "feeds.carbon"
QUEUES_WEATHER == "feeds.weather"
QUEUES_DLQ == "feeds.dlq"
QueueNames == {QUEUES_ALL, QUEUES_CARBON, QUEUES_WEATHER, QUEUES_DLQ}

BINDINGS_ALL == <<"feed", "#">>
BINDINGS_CARBON == <<"feed", "carbon", "*">>
BINDINGS_WEATHER == <<"feed", "weather", "*">>

NoTopology == [exchanges |-> {}, queues |-> {}, bindings |-> {}]

\* setupTopology(), in its three groups of awaits
DeclareExchanges(t) ==
  [t EXCEPT !.exchanges = @ \cup {[name |-> EXCHANGES_TOPIC, type |-> "topic"],
                                  [name |-> EXCHANGES_DLX, type |-> "fanout"]}]

\* an assertQueue without the option deadLetterExchange
DeclareQueuesPlain(t) ==
  [t EXCEPT !.queues = @ \cup {[name |-> q, deadLetterExchange |-> "none"] :
                                 q \in {QUEUES_ALL, QUEUES_CARBON, QUEUES_WEATHER, QUEUES_DLQ}}]

DeclareQueues(t) ==
  [t EXCEPT !.queues = @ \cup {[name |-> QUEUES_ALL, deadLetterExchange |-> EXCHANGES_DLX],
                               [name |-> QUEUES_CARBON, deadLetterExchange |-> EXCHANGES_DLX],
                               [name |-> QUEUES_WEATHER, deadLetterExchange |-> EXCHANGES_DLX],
                               [name |-> QUEUES_DLQ, deadLetterExchange |-> "none"]}]

DeclareBindings(t) ==
  [t EXCEPT !.bindings = @ \cup
     {[queue |-> QUEUES_ALL, exchange |-> EXCHANGES_TOPIC, pattern |-> BINDINGS_ALL],
      [queue |-> QUEUES_CARBON, exchange |-> EXCHANGES_TOPIC, pattern |-> BINDINGS_CARBON],
      [queue |-> QUEUES_WEATHER, exchange |-> EXCHANGES_TOPIC, pattern |-> BINDINGS_WEATHER],
      [queue |-> QUEUES_DLQ, exchange |-> EXCHANGES_DLX, pattern |-> <<>>]}]

\* a setupTopology that returns before its bindings
setupTopologyNoBindings(t, step) ==
  IF step = 0 THEN DeclareExchanges(t)
  ELSE IF step = 1 THEN DeclareQueues(t)
  ELSE t

setupTopology(t, step) ==
  IF step = 0 THEN DeclareExchanges(t)
  ELSE IF step = 1 THEN DeclareQueues(t)
  ELSE DeclareBindings(t)

TopologySteps == 3

\* a matching that knows # but compares * as a word
RECURSIVE MatchesStarAsWord(_, _)
MatchesStarAsWord(pattern, key) ==
  IF pattern = <<>> THEN key = <<>>
  ELSE IF Head(pattern) = "#"
    THEN MatchesStarAsWord(Tail(pattern), key)
         \/ (key # <<>> /\ MatchesStarAsWord(pattern, Tail(key)))
  ELSE /\ key # <<>>
       /\ Head(pattern) = Head(key)
       /\ MatchesStarAsWord(Tail(pattern), Tail(key))

\* a binding pattern matches a routing key: * is one segment, # any number
RECURSIVE Matches(_, _)
Matches(pattern, key) ==
  IF pattern = <<>> THEN key = <<>>
  ELSE IF Head(pattern) = "#"
    THEN Matches(Tail(pattern), key) \/ (key # <<>> /\ Matches(pattern, Tail(key)))
  ELSE /\ key # <<>>
       /\ Head(pattern) = "*" \/ Head(pattern) = Head(key)
       /\ Matches(Tail(pattern), Tail(key))

\* the queues a message published to an exchange is put in
Route(t, exchange, key) ==
  {b.queue : b \in {x \in t.bindings :
      /\ x.exchange = exchange
      /\ \E e \in t.exchanges :
           /\ e.name = exchange
           /\ e.type = "fanout" \/ Matches(x.pattern, key)}}

Enqueue(qs, targets, msg) ==
  [q \in QueueNames |-> IF q \in targets THEN Append(qs[q], msg) ELSE qs[q]]

\* a message rejected without requeue from queue q goes to q's dead-letter
\* exchange, if q has one
DeadLetter(t, qs, q, msg) ==
  LET dlx == {d.deadLetterExchange : d \in {x \in t.queues : x.name = q}} \ {"none"}
      dead == [msg EXCEPT !.death = [reason |-> "rejected", queue |-> q]]
  IN IF dlx = {} THEN qs
     ELSE Enqueue(qs, UNION {Route(t, x, msg.key) : x \in dlx}, dead)

\* a publish that puts the message in front of the waiting ones
PublishInFront(t, qs, exchange, msg) ==
  [q \in QueueNames |->
     IF q \in Route(t, exchange, msg.key) THEN <<msg>> \o qs[q] ELSE qs[q]]

\* channel.publish on a live channel
Publish(t, qs, exchange, msg) == Enqueue(qs, Route(t, exchange, msg.key), msg)

(***************************************************************************)
(* Processes                                                               *)
(***************************************************************************)
ConsumerProcs == {LoggerProc, AggProc, AggProc2}
\* one process of each consumer program
ConsumerPrograms == {LoggerProc, AggProc}

ExitStates == {"off", "exit0", "exit1", "crashed"}

\* the process is running
Alive(p) ==
  IF p \in ConsumerProcs THEN con[p].mainPc \notin ExitStates
  ELSE IF p = CarbonProc THEN ing.mainPc \notin ExitStates
  ELSE IF p = WeatherProc THEN wx.mainPc \notin ExitStates
  ELSE TRUE

\* the process ends: its sockets close with it
ExitConns(p) ==
  [c \in ConnIds |-> IF conns[p][c] \in {"open", "errored"} THEN "closed" ELSE conns[p][c]]

ExitChans(p) ==
  [h \in ChanIds |-> IF chans[p][h].state = "open"
                       THEN [chans[p][h] EXCEPT !.state = "closed"] ELSE chans[p][h]]

(***************************************************************************)
(* Consumers (consumers/logger.ts, consumers/aggregator.ts)                *)
(***************************************************************************)
QueueOf(p) == IF p = LoggerProc THEN QUEUES_ALL ELSE QUEUES_CARBON
\* every consumer with the logger's prefetch
PrefetchOfLogger(p) == 10

PrefetchOf(p) == IF p = LoggerProc THEN 10 ELSE 1

NewConsumer(started) ==
  [mainPc |-> IF started THEN "init" ELSE "off", step |-> 0, channel |-> 0,
   consumerTag |-> 0, isShuttingDown |-> FALSE, stopPc |-> "none"]

NoSub == [active |-> FALSE, chan |-> 0, queue |-> "none", prefetch |-> 0]

\* what a handler does with a delivery: its acknowledgement, whether it
\* processed the payload, and the calls of channel.ack and channel.nack it
\* made, in order; "throw" is an exception that leaves the handler
Ack(processed) ==
  [decision |-> "ack", requeue |-> FALSE, processed |-> processed, calls |-> <<"ack">>]
Nack(requeue) ==
  [decision |-> "nack", requeue |-> requeue, processed |-> FALSE, calls |-> <<"nack">>]
Throw == [decision |-> "throw", requeue |-> FALSE, processed |-> FALSE, calls |-> <<>>]

\* a handler that acknowledges before it reads the payload: a TypeError
\* then reaches the catch block after the ack
ReadsPayloadAcksFirst(envelope) ==
  IF envelope.data = "absent"
    THEN [Ack(FALSE) EXCEPT !.calls = <<"ack", "nack">>]
    ELSE Ack(TRUE)

\* a dispatch outside the try block: the TypeError leaves handleMessage
ReadsPayloadUncaught(envelope) ==
  IF envelope.data = "absent" THEN Throw ELSE Ack(TRUE)

\* processIntensity, processGeneration and the cases of formatMessageSummary
\* read fields of envelope.data: a TypeError when it is absent
ReadsPayload(envelope) ==
  IF envelope.data = "absent" THEN Nack(FALSE) ELSE Ack(TRUE)

\* handleMessage of the aggregator, for a delivery with channel set
aggregatorHandleMessage(msg) ==
  IF ~JSONparses(msg.body) THEN Nack(FALSE)
  ELSE LET envelope == JSONparse(msg.body)
       IN IF envelope.type = CARBON_INTENSITY THEN ReadsPayload(envelope)
          ELSE IF envelope.type = CARBON_GENERATION THEN ReadsPayload(envelope)
          ELSE Ack(FALSE)

\* handleMessage of the logger, for a delivery with channel set
loggerHandleMessage(msg) ==
  IF ~JSONparses(msg.body) THEN Nack(FALSE)
  ELSE LET envelope == JSONparse(msg.body)
       IN IF envelope.type \in MESSAGE_TYPES THEN ReadsPayload(envelope)
          ELSE Ack(FALSE)

\* a catch block that nacks with requeue
handleMessageRequeues(p, msg) ==
  LET out == IF p = LoggerProc THEN loggerHandleMessage(msg) ELSE aggregatorHandleMessage(msg)
  IN IF out.decision = "nack" THEN Nack(TRUE) ELSE out

handleMessage(p, msg) ==
  IF p = LoggerProc THEN loggerHandleMessage(msg) ELSE aggregatorHandleMessage(msg)

\* main(): process.on(...), then manager.getChannel() in caller slot "a"
ConMainStart(p) ==
  /\ con[p].mainPc = "init"
  /\ con' = [con EXCEPT ![p].mainPc = "getChannel"]
  /\ proc' = [proc EXCEPT ![p] = getChannel([@ EXCEPT !.calls["a"] = NewCall("getChannel")], "a")]
  /\ UNCHANGED <<conns, chans, brokerUp, brokerVars, lastHandled, effects, ing, sent, wx>>

\* main() resumes with the channel, or main().catch ends the process
ConMainGotChannel(p) ==
  /\ con[p].mainPc = "getChannel"
  /\ proc[p].calls["a"].pc = "done"
  /\ proc' = [proc EXCEPT ![p].calls["a"] = NoCall]
  /\ IF proc[p].calls["a"].res = "chan"
       THEN /\ con' = [con EXCEPT ![p].mainPc = "topology", ![p].step = 0,
                                  ![p].channel = proc[p].calls["a"].val]
            /\ UNCHANGED <<conns, chans>>
       ELSE /\ con' = [con EXCEPT ![p].mainPc = "exit1"]
            /\ conns' = [conns EXCEPT ![p] = ExitConns(p)]
            /\ chans' = [chans EXCEPT ![p] = ExitChans(p)]
  /\ UNCHANGED <<brokerUp, brokerVars, lastHandled, effects, ing, sent, wx>>

\* one group of awaits of setupTopology(channel) settles
ConTopologyStep(p) ==
  /\ con[p].mainPc = "topology"
  /\ Quiescent(proc[p])
  /\ IF ChanLive(p, con[p].channel)
       THEN /\ topo' = setupTopology(topo, con[p].step)
            /\ con' = [con EXCEPT ![p].step = IF @ + 1 = TopologySteps THEN 0 ELSE @ + 1,
                                  ![p].mainPc = IF con[p].step + 1 = TopologySteps
                                                  THEN "prefetch" ELSE "topology"]
            /\ UNCHANGED <<conns, chans>>
       ELSE /\ con' = [con EXCEPT ![p].mainPc = "exit1"]
            /\ conns' = [conns EXCEPT ![p] = ExitConns(p)]
            /\ chans' = [chans EXCEPT ![p] = ExitChans(p)]
            /\ UNCHANGED topo
  /\ UNCHANGED <<proc, brokerUp, queues, subs, unacked, lastHandled, effects, ing, sent, wx>>

\* await channel.prefetch(n) settles
ConPrefetch(p) ==
  /\ con[p].mainPc = "prefetch"
  /\ Quiescent(proc[p])
  /\ IF ChanLive(p, con[p].channel)
       THEN /\ subs' = [subs EXCEPT ![p] = [NoSub EXCEPT !.chan = con[p].channel,
                                                         !.prefetch = PrefetchOf(p)]]
            /\ con' = [con EXCEPT ![p].mainPc = "consume"]
            /\ UNCHANGED <<conns, chans>>
       ELSE /\ con' = [con EXCEPT ![p].mainPc = "exit1"]
            /\ conns' = [conns EXCEPT ![p] = ExitConns(p)]
            /\ chans' = [chans EXCEPT ![p] = ExitChans(p)]
            /\ UNCHANGED subs
  /\ UNCHANGED <<proc, brokerUp, topo, queues, unacked, lastHandled, effects, ing, sent, wx>>

\* await channel.consume(queue, handleMessage) settles
ConConsume(p) ==
  /\ con[p].mainPc = "consume"
  /\ Quiescent(proc[p])
  /\ IF ChanLive(p, con[p].channel)
       THEN /\ subs' = [subs EXCEPT ![p].active = TRUE, ![p].queue = QueueOf(p)]
            /\ con' = [con EXCEPT ![p].mainPc = "running", ![p].consumerTag = 1]
            /\ UNCHANGED <<conns, chans>>
       ELSE /\ con' = [con EXCEPT ![p].mainPc = "exit1"]
            /\ conns' = [conns EXCEPT ![p] = ExitConns(p)]
            /\ chans' = [chans EXCEPT ![p] = ExitChans(p)]
            /\ UNCHANGED subs
  /\ UNCHANGED <<proc, brokerUp, topo, queues, unacked, lastHandled, effects, ing, sent, wx>>

\* the subscription of p can carry deliveries and acknowledgements
SubLive(p) == subs[p].active /\ ChanLive(p, subs[p].chan)

\* the broker sends the oldest waiting message to p, within p's prefetch
BrokerDelivers(p) ==
  /\ SubLive(p)
  /\ queues[subs[p].queue] # <<>>
  /\ subs[p].prefetch = 0 \/ Len(unacked[p]) < subs[p].prefetch
  /\ unacked' = [unacked EXCEPT ![p] = Append(@, Head(queues[subs[p].queue]))]
  /\ queues' = [queues EXCEPT ![subs[p].queue] = Tail(@)]
  /\ UNCHANGED <<mgrVars, topo, subs, conVars, ing, sent, wx>>

Redelivered(ms) == [i \in 1..Len(ms) |-> [ms[i] EXCEPT !.redelivered = TRUE]]

\* the channel of p's subscription is gone: the broker drops the
\* subscription and puts the unacknowledged deliveries back
BrokerRequeues(p) ==
  /\ subs[p].chan # 0
  /\ ~ChanLive(p, subs[p].chan)
  /\ queues' = [queues EXCEPT ![subs[p].queue] = Redelivered(unacked[p]) \o @]
  /\ unacked' = [unacked EXCEPT ![p] = <<>>]
  /\ subs' = [subs EXCEPT ![p] = NoSub]
  /\ UNCHANGED <<mgrVars, topo, conVars, ing, sent, wx>>

\* handleMessage(msg) runs for the oldest delivery that has not been handled
HandleMessage(p) ==
  /\ Alive(p)
  /\ Quiescent(proc[p])
  /\ SubLive(p)
  /\ con[p].channel # 0
  /\ unacked[p] # <<>>
  /\ LET msg == Head(unacked[p])
         out == handleMessage(p, msg)
         q == subs[p].queue
     IN /\ lastHandled' = [n |-> lastHandled.n + 1, proc |-> p, msg |-> msg,
                           decision |-> out.decision, requeue |-> out.requeue,
                           calls |-> out.calls]
        /\ effects' = IF out.processed
                        THEN [effects EXCEPT ![p][JSONparse(msg.body).id] = @ + 1]
                        ELSE effects
        /\ IF out.decision = "throw"
             THEN /\ con' = [con EXCEPT ![p].mainPc = "crashed"]
                  /\ conns' = [conns EXCEPT ![p] = ExitConns(p)]
                  /\ chans' = [chans EXCEPT ![p] = ExitChans(p)]
                  /\ UNCHANGED <<queues, unacked>>
             ELSE /\ unacked' = [unacked EXCEPT ![p] = Tail(@)]
                  /\ queues' =
                       IF out.decision = "ack" THEN queues
                       ELSE IF out.requeue
                         THEN [queues EXCEPT ![q] = <<[msg EXCEPT !.redelivered = TRUE]>> \o @]
                       ELSE DeadLetter(topo, queues, q, msg)
                  /\ UNCHANGED <<con, conns, chans>>
  /\ UNCHANGED <<proc, brokerUp, topo, subs, ing, sent, wx>>

\* shutdown() on SIGINT or SIGTERM, up to its first await
ConShutdown(p) ==
  /\ Alive(p)
  /\ con[p].mainPc # "init"
  /\ Quiescent(proc[p])
  /\ ~con[p].isShuttingDown
  /\ IF con[p].channel # 0 /\ con[p].consumerTag # 0
       THEN /\ con' = [con EXCEPT ![p].isShuttingDown = TRUE, ![p].stopPc = "cancel"]
            /\ UNCHANGED proc
       ELSE /\ con' = [con EXCEPT ![p].isShuttingDown = TRUE, ![p].stopPc = "close"]
            /\ proc' = [proc EXCEPT ![p] = close([@ EXCEPT !.calls["b"] = NewCall("close")], "b")]
  /\ UNCHANGED <<conns, chans, brokerUp, brokerVars, lastHandled, effects, ing, sent, wx>>

\* await channel.cancel(consumerTag) settles (an error is swallowed), then
\* manager.close() in caller slot "b"
ConCancelDone(p) ==
  /\ Alive(p)
  /\ Quiescent(proc[p])
  /\ con[p].stopPc = "cancel"
  /\ subs' = IF SubLive(p) THEN [subs EXCEPT ![p].active = FALSE] ELSE subs
  /\ con' = [con EXCEPT ![p].stopPc = "close"]
  /\ proc' = [proc EXCEPT ![p] = close([@ EXCEPT !.calls["b"] = NewCall("close")], "b")]
  /\ UNCHANGED <<conns, chans, brokerUp, topo, queues, unacked, lastHandled, effects, ing, sent, wx>>

\* await manager.close() settles: process.exit(0)
ConShutdownDone(p) ==
  /\ Alive(p)
  /\ con[p].stopPc = "close"
  /\ proc[p].calls["b"].pc = "done"
  /\ proc' = [proc EXCEPT ![p].calls["b"] = NoCall]
  /\ con' = [con EXCEPT ![p].mainPc = "exit0", ![p].stopPc = "none"]
  /\ conns' = [conns EXCEPT ![p] = ExitConns(p)]
  /\ chans' = [chans EXCEPT ![p] = ExitChans(p)]
  /\ UNCHANGED <<brokerUp, brokerVars, lastHandled, effects, ing, sent, wx>>

(***************************************************************************)
(* Other publishers                                                        *)
(***************************************************************************)
\* what a publisher may put in a body: text that is no JSON, an envelope of
\* a type the consumers handle (with or without its payload), or an envelope
\* of a type they do not handle
HandledTypes == {CARBON_INTENSITY, CARBON_GENERATION}
UnhandledTypes == {CARBON_REGIONAL}

Bodies ==
  {Garbage} \cup
  {JSONstringify(createEnvelope(id, CARBON_INGESTER, type, data)) :
     id \in 1..MaxIds, type \in HandledTypes, data \in {"valid", "absent"}} \cup
  {JSONstringify(createEnvelope(id, CARBON_INGESTER, type, "valid")) :
     id \in 1..MaxIds, type \in UnhandledTypes}

\* a publisher sends a message to the topic exchange, with the envelope's
\* type as routing key (text that is no JSON goes out under a carbon key)
ExternalPublish(body) ==
  /\ sent < MaxSent
  /\ \E e \in topo.exchanges : e.name = EXCHANGES_TOPIC
  /\ LET key == IF JSONparses(body) THEN JSONparse(body).type ELSE CARBON_INTENSITY
         msg == Message(key, JSONparse(body).id, CARBON_INGESTER, body)
     IN queues' = Publish(topo, queues, EXCHANGES_TOPIC, msg)
  /\ sent' = sent + 1
  /\ UNCHANGED <<mgrVars, topo, subs, unacked, conVars, ing, wx>>

(***************************************************************************)
(* Carbon ingester (ingesters/carbon.ts)                                   *)
(***************************************************************************)
Sources == {"intensity", "generation"}

CONFIG_intensityPollInterval == 120000
CONFIG_generationPollInterval == 300000
CONFIG_baseRetryDelay == 5000
CONFIG_maxRetryDelay == 300000

PollInterval(src) ==
  IF src = "intensity" THEN CONFIG_intensityPollInterval ELSE CONFIG_generationPollInterval

RoutingKeyOf(src) == IF src = "intensity" THEN CARBON_INTENSITY ELSE CARBON_GENERATION

\* a backoff without the cap
ingesterBackoffUncapped(failures) == CONFIG_baseRetryDelay * Pow2(failures)

\* calculateBackoff(failures) of the ingester
ingesterBackoff(failures) ==
  Min(CONFIG_baseRetryDelay * Pow2(failures), CONFIG_maxRetryDelay)

NewIngester(started) ==
  [mainPc |-> IF started THEN "init" ELSE "off", step |-> 0, channel |-> 0,
   isShuttingDown |-> FALSE, stopPc |-> "none", created |-> 0,
   pc |-> [src \in Sources |-> "idle"],
   failures |-> [src \in Sources |-> 0],
   delay |-> [src \in Sources |-> 0],
   cycles |-> [src \in Sources |-> 0]]

\* cycles counts, per source, what the event loop holds of its polling: the
\* invocations suspended at an await and the armed poll timer.  An
\* invocation returns, or a timer fires or is cleared
Returns(st, src) == [st EXCEPT !.cycles[src] = @ - 1]

\* pollIntensity() / pollGeneration(), up to the await of the fetch
poll(st, src) ==
  IF st.isShuttingDown
    THEN [st EXCEPT !.pc[src] = "stopped", !.delay[src] = 0]
    ELSE [st EXCEPT !.pc[src] = "fetching", !.delay[src] = 0, !.cycles[src] = @ + 1]

\* the envelope the poll of src builds from a fetched payload
BuildMessage(src, id) ==
  IF src = "intensity" THEN createCarbonIntensityMessage(id, "valid")
  ELSE createCarbonGenerationMessage(id, "valid")

\* publishMessage throws: channel is null, or amqplib refuses a closed channel
publishMessageThrows(p, channel) == channel = 0 \/ ~ChanLive(p, channel)

\* a publish without the option messageId
publishMessageNoId(message, routingKey) ==
  Message(routingKey, 0, CARBON_INGESTER, JSONstringify(message))

\* what publishMessage hands to channel.publish
publishMessage(message, routingKey) ==
  Message(routingKey, message.id, CARBON_INGESTER, JSONstringify(message))

\* a catch block that counts the failure and ends the cycle
pollCatchGivesUp(st, src) ==
  [Returns(st, src) EXCEPT !.failures[src] = @ + 1,
                           !.pc[src] = "stopped",
                           !.delay[src] = 0]

\* a catch block with one failure counter for all sources
pollCatchSharedCounter(st, src) ==
  [st EXCEPT !.failures = [x \in Sources |-> st.failures[src] + 1],
             !.pc[src] = "backoff",
             !.delay[src] = ingesterBackoff(st.failures[src] + 1)]

\* a catch block that counts the failure and keeps the fixed schedule
pollCatchKeepsSchedule(st, src) ==
  [st EXCEPT !.failures[src] = @ + 1,
             !.pc[src] = "timer",
             !.delay[src] = PollInterval(src)]

\* the catch block of a poll: count the failure and sleep
pollCatch(st, src) ==
  [st EXCEPT !.failures[src] = @ + 1,
             !.pc[src] = "backoff",
             !.delay[src] = ingesterBackoff(st.failures[src] + 1)]

\* a success path that keeps the failure counter
pollSucceededKeepsCount(st, src) ==
  IF ~st.isShuttingDown
    THEN [st EXCEPT !.pc[src] = "timer", !.delay[src] = PollInterval(src)]
    ELSE [Returns(st, src) EXCEPT !.pc[src] = "stopped", !.delay[src] = 0]

\* a success path that arms the timer and calls the poll function as well
pollSucceededPollsToo(st, src) ==
  LET st1 == [st EXCEPT !.failures[src] = 0]
  IN IF ~st1.isShuttingDown
       THEN [st1 EXCEPT !.pc[src] = "timer", !.delay[src] = PollInterval(src),
                        !.cycles[src] = @ + 1]
       ELSE [Returns(st1, src) EXCEPT !.pc[src] = "stopped", !.delay[src] = 0]

\* the end of a poll whose fetch and publish succeeded: the invocation
\* returns, with the timer armed unless the process is shutting down
pollSucceeded(st, src) ==
  LET st1 == [st EXCEPT !.failures[src] = 0]
  IN IF ~st1.isShuttingDown
       THEN [st1 EXCEPT !.pc[src] = "timer", !.delay[src] = PollInterval(src)]
       ELSE [Returns(st1, src) EXCEPT !.pc[src] = "stopped", !.delay[src] = 0]

IngMainStart ==
  /\ ing.mainPc = "init"
  /\ ing' = [ing EXCEPT !.mainPc = "getChannel"]
  /\ proc' = [proc EXCEPT ![CarbonProc] =
                getChannel([@ EXCEPT !.calls["a"] = NewCall("getChannel")], "a")]
  /\ UNCHANGED <<conns, chans, brokerUp, brokerVars, conVars, sent, wx>>

IngMainGotChannel ==
  /\ ing.mainPc = "getChannel"
  /\ proc[CarbonProc].calls["a"].pc = "done"
  /\ proc' = [proc EXCEPT ![CarbonProc].calls["a"] = NoCall]
  /\ IF proc[CarbonProc].calls["a"].res = "chan"
       THEN /\ ing' = [ing EXCEPT !.mainPc = "topology", !.step = 0,
                                  !.channel = proc[CarbonProc].calls["a"].val]
            /\ UNCHANGED <<conns, chans>>
       ELSE /\ ing' = [ing EXCEPT !.mainPc = "exit1"]
            /\ conns' = [conns EXCEPT ![CarbonProc] = ExitConns(CarbonProc)]
            /\ chans' = [chans EXCEPT ![CarbonProc] = ExitChans(CarbonProc)]
  /\ UNCHANGED <<brokerUp, brokerVars, conVars, sent, wx>>

\* one group of awaits of setupTopology(channel) settles; after the last
\* one main() calls pollIntensity() and pollGeneration()
IngTopologyStep ==
  /\ ing.mainPc = "topology"
  /\ Quiescent(proc[CarbonProc])
  /\ IF ChanLive(CarbonProc, ing.channel)
       THEN /\ topo' = setupTopology(topo, ing.step)
            /\ ing' = IF ing.step + 1 = TopologySteps
                        THEN poll(poll([ing EXCEPT !.mainPc = "running", !.step = 0],
                                       "intensity"), "generation")
                        ELSE [ing EXCEPT !.step = @ + 1]
            /\ UNCHANGED <<conns, chans>>
       ELSE /\ ing' = [ing EXCEPT !.mainPc = "exit1"]
            /\ conns' = [conns EXCEPT ![CarbonProc] = ExitConns(CarbonProc)]
            /\ chans' = [chans EXCEPT ![CarbonProc] = ExitChans(CarbonProc)]
            /\ UNCHANGED topo
  /\ UNCHANGED <<proc, brokerUp, queues, subs, unacked, conVars, sent, wx>>

\* the fetch of src succeeds: build the envelope, publish it, schedule
IngFetchSucceeds(src) ==
  /\ Alive(CarbonProc)
  /\ Quiescent(proc[CarbonProc])
  /\ ing.pc[src] = "fetching"
  /\ ing.created < MaxEnvelopes
  /\ LET message == BuildMessage(src, ing.created + 1)
         st1 == [ing EXCEPT !.created = @ + 1]
     IN IF publishMessageThrows(CarbonProc, ing.channel)
          THEN /\ ing.failures[src] < MaxFailures
               /\ ing' = pollCatch(st1, src)
               /\ UNCHANGED queues
          ELSE /\ queues' = Publish(topo, queues, EXCHANGES_TOPIC,
                                    publishMessage(message, RoutingKeyOf(src)))
               /\ ing' = pollSucceeded(st1, src)
  /\ UNCHANGED <<mgrVars, topo, subs, unacked, conVars, sent, wx>>

\* the fetch of src fails (HTTP status, network, shape)
IngFetchFails(src) ==
  /\ Alive(CarbonProc)
  /\ Quiescent(proc[CarbonProc])
  /\ ing.pc[src] = "fetching"
  /\ ing.failures[src] < MaxFailures
  /\ ing' = pollCatch(ing, src)
  /\ UNCHANGED <<mgrVars, brokerVars, conVars, sent, wx>>

\* await sleep(backoff) settles
IngBackoffDone(src) ==
  /\ Alive(CarbonProc)
  /\ Quiescent(proc[CarbonProc])
  /\ ing.pc[src] = "backoff"
  /\ ing' = IF ~ing.isShuttingDown THEN poll(Returns(ing, src), src)
            ELSE [Returns(ing, src) EXCEPT !.pc[src] = "stopped", !.delay[src] = 0]
  /\ UNCHANGED <<mgrVars, brokerVars, conVars, sent, wx>>

\* the poll-interval timer of src fires
IngTimerFires(src) ==
  /\ Alive(CarbonProc)
  /\ Quiescent(proc[CarbonProc])
  /\ ing.pc[src] = "timer"
  /\ ing' = poll(Returns(ing, src), src)
  /\ UNCHANGED <<mgrVars, brokerVars, conVars, sent, wx>>

\* shutdown(), up to the await of manager.close() in caller slot "b"
IngShutdown ==
  /\ Alive(CarbonProc)
  /\ ing.mainPc # "init"
  /\ Quiescent(proc[CarbonProc])
  /\ ~ing.isShuttingDown
  /\ ing' = [ing EXCEPT !.isShuttingDown = TRUE, !.stopPc = "close",
                        !.pc = [src \in Sources |->
                                  IF ing.pc[src] = "timer" THEN "stopped" ELSE ing.pc[src]],
                        !.delay = [src \in Sources |->
                                  IF ing.pc[src] = "timer" THEN 0 ELSE ing.delay[src]],
                        !.cycles = [src \in Sources |->
                                  IF ing.pc[src] = "timer" THEN ing.cycles[src] - 1
                                  ELSE ing.cycles[src]]]
  /\ proc' = [proc EXCEPT ![CarbonProc] = close([@ EXCEPT !.calls["b"] = NewCall("close")], "b")]
  /\ UNCHANGED <<conns, chans, brokerUp, brokerVars, conVars, sent, wx>>

\* await manager.close() settles: process.exit(0)
IngShutdownDone ==
  /\ Alive(CarbonProc)
  /\ ing.stopPc = "close"
  /\ proc[CarbonProc].calls["b"].pc = "done"
  /\ proc' = [proc EXCEPT ![CarbonProc].calls["b"] = NoCall]
  /\ ing' = [ing EXCEPT !.mainPc = "exit0", !.stopPc = "none"]
  /\ conns' = [conns EXCEPT ![CarbonProc] = ExitConns(CarbonProc)]
  /\ chans' = [chans EXCEPT ![CarbonProc] = ExitChans(CarbonProc)]
  /\ UNCHANGED <<brokerUp, brokerVars, conVars, sent, wx>>

(***************************************************************************)
(* Weather ingester (ingesters/weather.ts)                                 *)
(***************************************************************************)
WCONFIG_pollInterval == 600000
WCONFIG_baseRetryDelay == 10000
WCONFIG_maxRetryDelay == 600000
WCONFIG_rateLimitDelay == 60000

\* the HTTP statuses the weather API answers with
Statuses == {200, 401, 429, 500}

\* calculateBackoff(failureCount) of the weather ingester
weatherBackoff(failureCount) ==
  Min(WCONFIG_baseRetryDelay * Pow2(failureCount), WCONFIG_maxRetryDelay)

\* error is the exception the catch block of pollWeather holds while it sleeps
NewWeather(started) ==
  [mainPc |-> IF started THEN "init" ELSE "off", step |-> 0, channel |-> 0,
   isShuttingDown |-> FALSE, stopPc |-> "none", created |-> 0,
   pc |-> "idle", failures |-> 0, delay |-> 0, error |-> "none", cycles |-> 0]

\* an invocation of pollWeather returns, or pollTimer fires or is cleared
WxReturns(st) == [st EXCEPT !.cycles = @ - 1]

\* fetchWeather(): the exception it throws for a response status, or "none"
fetchWeather(status) ==
  IF status = 429 THEN "RateLimitError"
  ELSE IF status = 401 THEN "Invalid API key (401)"
  ELSE IF status # 200 THEN "HTTP error"
  ELSE "none"

\* pollWeather(), up to the await of the fetch
pollWeather(st) ==
  IF st.isShuttingDown
    THEN [st EXCEPT !.pc = "stopped", !.delay = 0, !.error = "none"]
    ELSE [st EXCEPT !.pc = "fetching", !.delay = 0, !.error = "none", !.cycles = @ + 1]

\* what publishMessage of the weather ingester hands to channel.publish
weatherPublishMessage(message, routingKey) ==
  Message(routingKey, message.id, WEATHER_INGESTER, JSONstringify(message))

\* a catch block without the RateLimitError branch
pollWeatherCatchCounts(st, error) ==
  [st EXCEPT !.failures = @ + 1, !.pc = "backoff", !.error = error,
             !.delay = weatherBackoff(st.failures + 1)]

\* the catch block of pollWeather, up to its await of sleep
pollWeatherCatch(st, error) ==
  IF error = "RateLimitError"
    THEN [st EXCEPT !.pc = "cooldown", !.error = error,
                    !.delay = WCONFIG_rateLimitDelay]
    ELSE [st EXCEPT !.failures = @ + 1, !.pc = "backoff", !.error = error,
                    !.delay = weatherBackoff(st.failures + 1)]

\* the end of a pollWeather whose fetch and publish succeeded
pollWeatherSucceeded(st) ==
  LET st1 == [st EXCEPT !.failures = 0]
  IN IF ~st1.isShuttingDown
       THEN [st1 EXCEPT !.pc = "timer", !.delay = WCONFIG_pollInterval]
       ELSE [WxReturns(st1) EXCEPT !.pc = "stopped", !.delay = 0]

\* main(): without an API key process.exit(1); else process.on(...), then
\* manager.getChannel() in caller slot "a"
WxMainStart(hasKey) ==
  /\ wx.mainPc = "init"
  /\ IF hasKey
       THEN /\ wx' = [wx EXCEPT !.mainPc = "getChannel"]
            /\ proc' = [proc EXCEPT ![WeatherProc] =
                          getChannel([@ EXCEPT !.calls["a"] = NewCall("getChannel")], "a")]
       ELSE /\ wx' = [wx EXCEPT !.mainPc = "exit1"]
            /\ UNCHANGED proc
  /\ UNCHANGED <<conns, chans, brokerUp, brokerVars, conVars, ing, sent>>

\* main() resumes with the channel, or main().catch ends the process
WxMainGotChannel ==
  /\ wx.mainPc = "getChannel"
  /\ proc[WeatherProc].calls["a"].pc = "done"
  /\ proc' = [proc EXCEPT ![WeatherProc].calls["a"] = NoCall]
  /\ IF proc[WeatherProc].calls["a"].res = "chan"
       THEN /\ wx' = [wx EXCEPT !.mainPc = "topology", !.step = 0,
                                !.channel = proc[WeatherProc].calls["a"].val]
            /\ UNCHANGED <<conns, chans>>
       ELSE /\ wx' = [wx EXCEPT !.mainPc = "exit1"]
            /\ conns' = [conns EXCEPT ![WeatherProc] = ExitConns(WeatherProc)]
            /\ chans' = [chans EXCEPT ![WeatherProc] = ExitChans(WeatherProc)]
  /\ UNCHANGED <<brokerUp, brokerVars, conVars, ing, sent>>

\* one group of awaits of setupTopology(channel) settles; after the last
\* one main() calls pollWeather()
WxTopologyStep ==
  /\ wx.mainPc = "topology"
  /\ Quiescent(proc[WeatherProc])
  /\ IF ChanLive(WeatherProc, wx.channel)
       THEN /\ topo' = setupTopology(topo, wx.step)
            /\ wx' = IF wx.step + 1 = TopologySteps
                       THEN pollWeather([wx EXCEPT !.mainPc = "running", !.step = 0])
                       ELSE [wx EXCEPT !.step = @ + 1]
            /\ UNCHANGED <<conns, chans>>
       ELSE /\ wx' = [wx EXCEPT !.mainPc = "exit1"]
            /\ conns' = [conns EXCEPT ![WeatherProc] = ExitConns(WeatherProc)]
            /\ chans' = [chans EXCEPT ![WeatherProc] = ExitChans(WeatherProc)]
            /\ UNCHANGED topo
  /\ UNCHANGED <<proc, brokerUp, queues, subs, unacked, conVars, ing, sent>>

\* the fetch settles with a response status: on 200 build the envelope,
\* publish it and schedule; else the catch block
WxFetchSettles(status) ==
  /\ Alive(WeatherProc)
  /\ Quiescent(proc[WeatherProc])
  /\ wx.pc = "fetching"
  /\ LET error == fetchWeather(status)
     IN IF error # "none"
          THEN /\ error # "RateLimitError" => wx.failures < MaxFailures
               /\ wx' = pollWeatherCatch(wx, error)
               /\ UNCHANGED queues
          ELSE /\ wx.created < MaxEnvelopes
               /\ LET message == createWeatherCurrentMessage(wx.created + 1, "valid")
                      st1 == [wx EXCEPT !.created = @ + 1]
                  IN IF publishMessageThrows(WeatherProc, wx.channel)
                       THEN /\ wx.failures < MaxFailures
                            /\ wx' = pollWeatherCatch(st1, "Channel not available")
                            /\ UNCHANGED queues
                       ELSE /\ queues' = Publish(topo, queues, EXCHANGES_TOPIC,
                                                 weatherPublishMessage(message, WEATHER_CURRENT))
                            /\ wx' = pollWeatherSucceeded(st1)
  /\ UNCHANGED <<mgrVars, topo, subs, unacked, conVars, ing, sent>>

\* await sleep(...) of the catch block settles
WxSleepDone ==
  /\ Alive(WeatherProc)
  /\ Quiescent(proc[WeatherProc])
  /\ wx.pc \in {"backoff", "cooldown"}
  /\ wx' = IF ~wx.isShuttingDown THEN pollWeather(WxReturns(wx))
           ELSE [WxReturns(wx) EXCEPT !.pc = "stopped", !.delay = 0, !.error = "none"]
  /\ UNCHANGED <<mgrVars, brokerVars, conVars, ing, sent>>

\* pollTimer fires
WxTimerFires ==
  /\ Alive(WeatherProc)
  /\ Quiescent(proc[WeatherProc])
  /\ wx.pc = "timer"
  /\ wx' = pollWeather(WxReturns(wx))
  /\ UNCHANGED <<mgrVars, brokerVars, conVars, ing, sent>>

\* shutdown(), up to the await of manager.close() in caller slot "b"
WxShutdown ==
  /\ Alive(WeatherProc)
  /\ wx.mainPc # "init"
  /\ Quiescent(proc[WeatherProc])
  /\ ~wx.isShuttingDown
  /\ wx' = [wx EXCEPT !.isShuttingDown = TRUE, !.stopPc = "close",
                      !.pc = IF wx.pc = "timer" THEN "stopped" ELSE wx.pc,
                      !.delay = IF wx.pc = "timer" THEN 0 ELSE wx.delay,
                      !.cycles = IF wx.pc = "timer" THEN wx.cycles - 1 ELSE wx.cycles]
  /\ proc' = [proc EXCEPT ![WeatherProc] = close([@ EXCEPT !.calls["b"] = NewCall("close")], "b")]
  /\ UNCHANGED <<conns, chans, brokerUp, brokerVars, conVars, ing, sent>>

\* await manager.close() settles: process.exit(0)
WxShutdownDone ==
  /\ Alive(WeatherProc)
  /\ wx.stopPc = "close"
  /\ proc[WeatherProc].calls["b"].pc = "done"
  /\ proc' = [proc EXCEPT ![WeatherProc].calls["b"] = NoCall]
  /\ wx' = [wx EXCEPT !.mainPc = "exit0", !.stopPc = "none"]
  /\ conns' = [conns EXCEPT ![WeatherProc] = ExitConns(WeatherProc)]
  /\ chans' = [chans EXCEPT ![WeatherProc] = ExitChans(WeatherProc)]
  /\ UNCHANGED <<brokerUp, brokerVars, conVars, ing, sent>>

(***************************************************************************)
(* The manager under an arbitrary client                                   *)
(***************************************************************************)
MgrInit ==
  /\ proc = [p \in Procs |-> NewManager]
  /\ conns = [p \in Procs |-> [c \in ConnIds |-> "none"]]
  /\ chans = [p \in Procs |-> [h \in ChanIds |-> [state |-> "none", conn |-> 0]]]
  /\ brokerUp \in BOOLEAN

BrokerInit ==
  /\ topo = NoTopology
  /\ queues = [q \in QueueNames |-> <<>>]
  /\ subs = [p \in ConsumerProcs |-> NoSub]
  /\ unacked = [p \in ConsumerProcs |-> <<>>]
  /\ sent = 0

NothingHandled ==
  [n |-> 0, proc |-> "none", msg |-> Message(<<>>, 0, "", Garbage),
   decision |-> "none", requeue |-> FALSE, calls |-> <<>>]

\* which of the processes are started
AppInit(started) ==
  /\ con = [p \in ConsumerProcs |-> NewConsumer(p \in started)]
  /\ lastHandled = NothingHandled
  /\ effects = [p \in ConsumerProcs |-> [id \in 1..MaxIds |-> 0]]
  /\ ing = NewIngester(CarbonProc \in started)
  /\ wx = NewWeather(WeatherProc \in started)

MgrStep(p) ==
  \/ \E s \in Slots : MgrAttemptResolves(p, s)
  \/ \E s \in Slots : MgrSleepDone(p, s)
  \/ \E s \in Slots : MgrCreateChannelResolves(p, s)
  \/ \E s \in Slots : MgrCloseChannelResolves(p, s)
  \/ \E s \in Slots : MgrCloseConnectionResolves(p, s)

TransportStep(p) ==
  \/ \E c \in ConnIds : ConnError(p, c)
  \/ \E c \in ConnIds : ConnClosed(p, c)
  \/ \E h \in ChanIds : ChanLost(p, h)

ClientStep ==
  \/ \E s \in CallerSlots : CallConnect(ClientProc, s)
  \/ \E s \in CallerSlots : CallGetChannel(ClientProc, s)
  \/ \E s \in CallerSlots : CallClose(ClientProc, s)
  \/ \E s \in Slots : CallerResumes(ClientProc, s)

InitConn == MgrInit /\ BrokerInit /\ AppInit({})

NextConn ==
  \/ ClientStep
  \/ MgrStep(ClientProc)
  \/ TransportStep(ClientProc)
  \/ BrokerStops
  \/ BrokerStarts

SpecConn == InitConn /\ [][NextConn]_vars

\* timers fire and pending I/O settles; continuations run.  The loop that
\* handleDisconnect starts is taken up whenever the call stack is empty,
\* however often continuations of the callers run in between: strong
\* fairness for its awaits
FairMgr(p) ==
  /\ SF_vars(MgrAttemptResolves(p, BgSlot))
  /\ SF_vars(MgrSleepDone(p, BgSlot))
  /\ \A s \in CallerSlots : WF_vars(MgrAttemptResolves(p, s))
  /\ \A s \in CallerSlots : WF_vars(MgrSleepDone(p, s))
  /\ \A s \in Slots : WF_vars(MgrCreateChannelResolves(p, s))
  /\ \A s \in Slots : WF_vars(MgrCloseChannelResolves(p, s))
  /\ \A s \in Slots : WF_vars(MgrCloseConnectionResolves(p, s))
  /\ \A s \in Slots : WF_vars(CallerResumes(p, s))

FairConn == SpecConn /\ FairMgr(ClientProc)

\* a timer fires and a pending I/O settles however often the callers make
\* further calls in between: strong fairness for every await of the manager
StrongFairMgr(p) ==
  /\ \A s \in Slots : SF_vars(MgrAttemptResolves(p, s))
  /\ \A s \in Slots : SF_vars(MgrSleepDone(p, s))
  /\ \A s \in Slots : SF_vars(MgrCreateChannelResolves(p, s))
  /\ \A s \in Slots : SF_vars(MgrCloseChannelResolves(p, s))
  /\ \A s \in Slots : SF_vars(MgrCloseConnectionResolves(p, s))
  /\ \A s \in Slots : WF_vars(CallerResumes(p, s))

StrongFairConn == SpecConn /\ StrongFairMgr(ClientProc)

(***************************************************************************)
(* The carbon ingester with its manager and the broker                     *)
(***************************************************************************)
InitIngest == MgrInit /\ BrokerInit /\ AppInit({CarbonProc})

IngStep ==
  \/ IngMainStart
  \/ IngMainGotChannel
  \/ IngTopologyStep
  \/ \E src \in Sources : IngFetchSucceeds(src)
  \/ \E src \in Sources : IngFetchFails(src)
  \/ \E src \in Sources : IngBackoffDone(src)
  \/ \E src \in Sources : IngTimerFires(src)
  \/ IngShutdown
  \/ IngShutdownDone

\* the part of a process that is its manager and its transport
Background(p) ==
  /\ Alive(p)
  /\ \/ MgrStep(p)
     \/ TransportStep(p)
     \/ CallerResumes(p, BgSlot)

NextIngest ==
  \/ IngStep
  \/ Background(CarbonProc)
  \/ BrokerStops
  \/ BrokerStarts

SpecIngest == InitIngest /\ [][NextIngest]_vars

(***************************************************************************)
(* One of the two ingesters with its manager and the broker                *)
(***************************************************************************)
IngesterProcs == {CarbonProc, WeatherProc}

InitIngesters ==
  /\ MgrInit /\ BrokerInit
  /\ \E k \in IngesterProcs : AppInit({k})

WxStep ==
  \/ \E hasKey \in BOOLEAN : WxMainStart(hasKey)
  \/ WxMainGotChannel
  \/ WxTopologyStep
  \/ \E status \in Statuses : WxFetchSettles(status)
  \/ WxSleepDone
  \/ WxTimerFires
  \/ WxShutdown
  \/ WxShutdownDone

NextIngesters ==
  \/ IngStep
  \/ WxStep
  \/ \E p \in IngesterProcs : Background(p)
  \/ BrokerStops
  \/ BrokerStarts

SpecIngesters == InitIngesters /\ [][NextIngesters]_vars

\* timers fire and sleeps end; the manager's awaits settle and its callers
\* resume
FairIngesters ==
  /\ SpecIngesters
  /\ \A p \in IngesterProcs : FairMgr(p)
  /\ \A src \in Sources : WF_vars(IngBackoffDone(src))
  /\ \A src \in Sources : WF_vars(IngTimerFires(src))
  /\ WF_vars(WxSleepDone)
  /\ WF_vars(WxTimerFires)

(***************************************************************************)
(* One consumer with its manager, the broker and other publishers          *)
(***************************************************************************)
InitConsume ==
  /\ MgrInit /\ BrokerInit
  /\ \E k \in ConsumerPrograms : AppInit({k})

ConStep(p) ==
  \/ ConMainStart(p)
  \/ ConMainGotChannel(p)
  \/ ConTopologyStep(p)
  \/ ConPrefetch(p)
  \/ ConConsume(p)
  \/ HandleMessage(p)
  \/ ConShutdown(p)
  \/ ConCancelDone(p)
  \/ ConShutdownDone(p)

BrokerStep(p) ==
  \/ BrokerDelivers(p)
  \/ BrokerRequeues(p)

NextConsume ==
  \/ \E p \in ConsumerProcs : ConStep(p)
  \/ \E p \in ConsumerProcs : BrokerStep(p)
  \/ \E p \in ConsumerProcs : Background(p)
  \/ \E body \in Bodies : ExternalPublish(body)
  \/ BrokerStops
  \/ BrokerStarts

SpecConsume == InitConsume /\ [][NextConsume]_vars

\* what the event loop, the broker and the network do without being asked:
\* promises settle, continuations run, deliveries arrive and are handled
FairCon(p) ==
  /\ FairMgr(p)
  /\ WF_vars(ConMainStart(p))
  /\ WF_vars(ConMainGotChannel(p))
  /\ WF_vars(ConTopologyStep(p))
  /\ WF_vars(ConPrefetch(p))
  /\ WF_vars(ConConsume(p))
  /\ WF_vars(ConCancelDone(p))
  /\ WF_vars(ConShutdownDone(p))
  /\ WF_vars(HandleMessage(p))
  /\ WF_vars(BrokerDelivers(p))
  /\ WF_vars(BrokerRequeues(p))

FairConsume == SpecConsume /\ \A p \in ConsumerProcs : FairCon(p)

(***************************************************************************)
(* Any one of the four processes with its manager and the broker           *)
(***************************************************************************)
AppProcs == IngesterProcs \cup ConsumerPrograms

InitApp ==
  /\ MgrInit /\ BrokerInit
  /\ \E k \in AppProcs : AppInit({k})

\* other publishers feed the consumers: they send in the behaviours that
\* start a consumer (an ingester reads no queue)
FeedsConsumers ==
  /\ \E p \in ConsumerProcs : con[p].mainPc # "off"
  /\ \E body \in Bodies : ExternalPublish(body)

NextApp ==
  \/ IngStep
  \/ WxStep
  \/ \E p \in ConsumerProcs : ConStep(p)
  \/ \E p \in ConsumerProcs : BrokerStep(p)
  \/ \E p \in AppProcs : Background(p)
  \/ FeedsConsumers
  \/ BrokerStops
  \/ BrokerStarts

SpecApp == InitApp /\ [][NextApp]_vars

(***************************************************************************)
(* Two instances of the aggregator on feeds.carbon, with their managers,   *)
(* the broker and other publishers                                         *)
(***************************************************************************)
Aggregators == {AggProc, AggProc2}

InitCompete == MgrInit /\ BrokerInit /\ AppInit(Aggregators)

\* the broker is up or down for the whole run; of the transport's faults,
\* the one that takes a held delivery away from an instance: its channel fails
NextCompete ==
  \/ \E p \in Aggregators : ConStep(p)
  \/ \E p \in Aggregators : BrokerStep(p)
  \/ \E p \in Aggregators : Alive(p) /\ MgrStep(p)
  \/ \E p \in Aggregators : Alive(p) /\ \E h \in ChanIds : ChanLost(p, h)
  \/ \E body \in Bodies : ExternalPublish(body)

SpecCompete == InitCompete /\ [][NextCompete]_vars

\* the manager of p holds an open connection
Connected(p) ==
  /\ proc[p].connection # 0
  /\ conns[p][proc[p].connection] = "open"

(***************************************************************************)
(* Properties of the ingester                                              *)
(***************************************************************************)
\* the envelope ids of the messages in queue q, in queue order
RECURSIVE IdsIn(_)
IdsIn(ms) ==
  IF ms = <<>> THEN <<>> ELSE <<JSONparse(Head(ms).body).id>> \o IdsIn(Tail(ms))

\* this step builds an envelope from a fetched payload
Builds == ing'.created = ing.created + 1

\* C1: no built envelope is dropped: the ingester keeps no envelope between
\* polls, so every envelope it has built is in feeds.all, and the envelopes
\* there are in the order in which they were built.
C1_NoEnvelopeDropped ==
  IdsIn(queues[QUEUES_ALL]) = [i \in 1..ing.created |-> i]

\* C8: whenever the ingester builds an envelope while its manager is
\* Connected, the envelope is published: feeds.all grows by it.
C8_PublishesWhenConnected ==
  [][(Builds /\ Connected(CarbonProc))
       => /\ Len(queues'[QUEUES_ALL]) = Len(queues[QUEUES_ALL]) + 1
          /\ IdsIn(queues'[QUEUES_ALL])[Len(queues'[QUEUES_ALL])] = ing'.created]_vars

(***************************************************************************)
(* Properties of the consumers                                             *)
(***************************************************************************)
\* retry parameter maxAttempts of the error-handling notes
maxAttempts == 3

\* this step is a run of handleMessage
Handles == lastHandled'.n = lastHandled.n + 1

\* the envelope types consumer p has a case for
TypesOf(p) == IF p = LoggerProc THEN MESSAGE_TYPES ELSE HandledTypes

Unparseable(m) == ~JSONparses(m.body)
RaisesInHandler(p, m) ==
  /\ JSONparses(m.body)
  /\ JSONparse(m.body).type \in TypesOf(p)
  /\ JSONparse(m.body).data = "absent"
UnknownType(p, m) == JSONparses(m.body) /\ JSONparse(m.body).type \notin TypesOf(p)

\* the step dead-letters lastHandled'.msg from the queue of its consumer:
\* nothing goes back to that queue and feeds.dlq grows by the message
DeadLetters ==
  LET m == lastHandled'.msg
      q == QueueOf(lastHandled'.proc)
  IN /\ queues'[q] = queues[q]
     /\ Len(queues'[QUEUES_DLQ]) = Len(queues[QUEUES_DLQ]) + 1
     /\ LET d == queues'[QUEUES_DLQ][Len(queues'[QUEUES_DLQ])]
        IN /\ d.body = m.body
           /\ d.death.reason = "rejected"
           /\ d.death.queue = q

\* C2: two deliveries with the same envelope id to one consumer produce the
\* handler's side effect once: per consumer and envelope id, the side effect
\* has happened at most once.
C2_OneSideEffect ==
  \A p \in ConsumerProcs : \A id \in 1..MaxIds : effects[p][id] <= 1

\* C3: a delivery whose handler raises is nacked with requeue while its
\* retry count is below maxAttempts and without requeue only once the count
\* has reached maxAttempts.
C3_RetryCeiling ==
  (lastHandled.n > 0 /\ RaisesInHandler(lastHandled.proc, lastHandled.msg))
    => /\ lastHandled.decision = "nack"
       /\ lastHandled.requeue <=> (lastHandled.msg.retry < maxAttempts)

\* C4: whenever handleMessage runs for a delivery whose body is no JSON, it
\* nacks without requeue, the message does not go back to the consumer's
\* queue, and the message is appended to feeds.dlq with reason rejected.
C4_UnparseableDeadLettered ==
  [][(Handles /\ Unparseable(lastHandled'.msg))
       => /\ lastHandled'.decision = "nack"
          /\ ~lastHandled'.requeue
          /\ DeadLetters]_vars

C4_Witness ==
  /\ lastHandled.n > 0
  /\ Unparseable(lastHandled.msg)
  /\ \E i \in 1..Len(queues[QUEUES_DLQ]) : Unparseable(queues[QUEUES_DLQ][i])

\* C5: whenever the handler raises while handleMessage dispatches a parsed
\* envelope, the message is nacked without requeue and dead-lettered, and
\* the consumer process keeps running with its subscription unchanged.
C5_HandlerErrorCaught ==
  [][(Handles /\ RaisesInHandler(lastHandled'.proc, lastHandled'.msg))
       => /\ lastHandled'.decision = "nack"
          /\ ~lastHandled'.requeue
          /\ DeadLetters
          /\ con' = con
          /\ subs' = subs
          /\ conns' = conns /\ chans' = chans]_vars

\* a consumer has dead-lettered a delivery whose handler raised and has
\* afterwards handled and acked the following delivery
C5_Witness ==
  /\ lastHandled.n = 2
  /\ lastHandled.decision = "ack"
  /\ SubLive(lastHandled.proc)
  /\ Len(queues[QUEUES_DLQ]) = 1
  /\ RaisesInHandler(lastHandled.proc, queues[QUEUES_DLQ][1])

\* C6: a parsed envelope of a type the consumer does not handle is nacked
\* without requeue, never acked.
C6_UnknownTypeRejected ==
  (lastHandled.n > 0 /\ UnknownType(lastHandled.proc, lastHandled.msg))
    => (lastHandled.decision = "nack" /\ ~lastHandled.requeue)

\* the manager of p is Connected on a connection made after the one that
\* carried the channel p subscribed on
Reconnected(p) ==
  /\ con[p].consumerTag # 0
  /\ Connected(p)
  /\ chans[p][con[p].channel].conn # proc[p].connection

\* C7: when a consumer that had subscribed has lost its connection and its
\* manager is Connected again while messages wait in its queue, then a
\* message is delivered to it (unless the process is told to stop, exits,
\* or loses the connection again).
C7_Resubscribed ==
  \A p \in ConsumerProcs :
    (/\ Alive(p) /\ ~con[p].isShuttingDown
     /\ Reconnected(p)
     /\ queues[QueueOf(p)] # <<>>)
    ~> (\/ unacked[p] # <<>>
        \/ ~Alive(p) \/ con[p].isShuttingDown
        \/ ~Connected(p))

(***************************************************************************)
(* Properties of the ConnectionManager                                     *)
(***************************************************************************)
LoopRunning(st) == \E s \in Slots : st.calls[s].pc \in {"attempt", "sleep"}

\* connection c, the one the manager holds, stops being open in this step
\* although close() has not been called
UnexpectedLoss(p, c) ==
  /\ proc[p].connection = c
  /\ conns[p][c] = "open"
  /\ conns'[p][c] # "open"
  /\ ~proc[p].isClosed

\* C9: when the connection the manager holds reports an error or a close
\* that close() did not cause, the manager drops the connection and the
\* channel and a connect loop is running without any caller's action; an
\* attempt of the background loop that ends while the broker is reachable
\* leaves the manager with an open connection; and a running background loop
\* leads to a held connection again unless the attempt ceiling is reached
\* first or close() is called
C9_AutoReconnect ==
  /\ [][\A c \in ConnIds : UnexpectedLoss(ClientProc, c) =>
          /\ proc'[ClientProc].connection = 0
          /\ proc'[ClientProc].channel = 0
          /\ LoopRunning(proc'[ClientProc])]_vars
  /\ [][(/\ proc[ClientProc].calls[BgSlot].pc = "attempt"
         /\ proc'[ClientProc].calls[BgSlot].pc # "attempt"
         /\ brokerUp)
          => /\ proc'[ClientProc].connection # 0
             /\ conns'[ClientProc][proc'[ClientProc].connection] = "open"]_vars
  /\ (proc[ClientProc].calls[BgSlot].pc \in {"attempt", "sleep"})
       ~> \/ proc[ClientProc].connection # 0
          \/ proc[ClientProc].retryCount > maxRetries
          \/ proc[ClientProc].isClosed

\* the background loop that a lost connection started has connected again
C9_Witness ==
  /\ proc[ClientProc].calls[BgSlot].pc = "done"
  /\ proc[ClientProc].calls[BgSlot].res = "conn"
  /\ proc[ClientProc].connection = proc[ClientProc].calls[BgSlot].val
  /\ \E c \in ConnIds : conns[ClientProc][c] \in {"errored", "closed"}
  /\ ~proc[ClientProc].isClosed

\* C10: a connect loop that ends with the exhaustion error has made no more
\* than maxRetries attempts (retryCount counts the failed attempts since the
\* manager was last connected)
C10_AttemptCeiling ==
  \A s \in Slots :
    (proc[ClientProc].calls[s].pc = "done" /\ proc[ClientProc].calls[s].res = "exhausted")
      => proc[ClientProc].retryCount <= maxRetries

\* a loop never waits for a connection id
LoopHasBudget == \A p \in Procs : LoopRunning(proc[p]) => UsedConns(p) # ConnIds

\* a call begins in slot s in this step (a caller's, or the connect() of
\* handleDisconnect in the background slot)
Begins(s) == SlotFree(proc[ClientProc], s) /\ ~SlotFree(proc'[ClientProc], s)

\* the step takes connect() past its two early returns: it sets isConnecting
EntersLoop == ~proc[ClientProc].isConnecting /\ proc'[ClientProc].isConnecting

\* C11: a connect() that enters the loop after an earlier loop ended with
\* the exhaustion error starts with the attempt counter at zero and makes a
\* connect attempt.
C11_FreshLoopAfterExhaustion ==
  [][\A s \in Slots :
       (Begins(s) /\ EntersLoop /\ proc[ClientProc].retryCount > maxRetries)
         => /\ proc'[ClientProc].retryCount = 0
            /\ proc'[ClientProc].calls[s].pc = "attempt"]_vars

\* C12: once isClosed is set it stays set, the manager does not start
\* connecting and it takes no connection or channel it did not hold.
C12_ClosedIsTerminal ==
  [][proc[ClientProc].isClosed
       => /\ proc'[ClientProc].isClosed
          /\ proc'[ClientProc].isConnecting => proc[ClientProc].isConnecting
          /\ proc'[ClientProc].connection \in {0, proc[ClientProc].connection}
          /\ proc'[ClientProc].channel \in {0, proc[ClientProc].channel}]_vars

\* C13: while isClosed is set and a loop is at its attempt or in its backoff
\* wait, no step installs a connection and the backoff wait is not followed
\* by another attempt.
C13_CloseCancelsLoop ==
  [][\A s \in Slots :
       (proc[ClientProc].isClosed /\ proc[ClientProc].calls[s].pc \in {"attempt", "sleep"})
         => /\ proc'[ClientProc].connection = 0
            /\ proc[ClientProc].calls[s].pc = "sleep"
                 => proc'[ClientProc].calls[s].pc # "attempt"]_vars

\* C14: every open connection of the process is the one its manager holds
\* (so at most one is open, and none is open untracked).
C14_OneLiveConnection ==
  \A c \in ConnIds :
    conns[ClientProc][c] = "open" => proc[ClientProc].connection = c

\* C15: at most one channel of the process is live.
C15_OneLiveChannel ==
  Cardinality({h \in ChanIds : ChanLive(ClientProc, h)}) <= 1

\* the fields of the manager of the client process, without its pending calls
Fields(st) == [st EXCEPT !.calls = [s \in Slots |-> NoCall]]

\* connect() begins in slot s in this step, on its own or as the first
\* statement of getChannel(): the call is no close() and no getChannel()
\* that returned the held channel
ConnectBegins(s) ==
  /\ Begins(s)
  /\ proc'[ClientProc].calls[s].pc \notin {"closeCh", "closeConn"}
  /\ proc'[ClientProc].calls[s].res \notin {"chan", "closed"}

\* C16: a caller's connect() that begins while the manager holds a connection
\* returns that connection in the same step (to its caller, or to the
\* getChannel() that called it), starts no attempt, and changes no field of
\* the manager, no other call and no connection or channel.
C16_ConnectIdempotent ==
  [][\A s \in CallerSlots :
       (ConnectBegins(s) /\ proc[ClientProc].connection # 0)
         => /\ \/ proc'[ClientProc].calls[s] =
                    Resolve(NoCall, "conn", proc[ClientProc].connection)
               \/ /\ proc'[ClientProc].calls[s].pc = "create"
                  /\ proc'[ClientProc].calls[s].arg = proc[ClientProc].connection
            /\ Fields(proc'[ClientProc]) = Fields(proc[ClientProc])
            /\ \A t \in Slots \ {s} :
                 proc'[ClientProc].calls[t] = proc[ClientProc].calls[t]
            /\ conns' = conns /\ chans' = chans]_vars

\* a connect() has returned the held connection, which already carries the
\* manager's channel
C16_Witness ==
  /\ proc[ClientProc].connection # 0
  /\ proc[ClientProc].channel # 0
  /\ chans[ClientProc][proc[ClientProc].channel].conn = proc[ClientProc].connection
  /\ \E s \in CallerSlots :
       proc[ClientProc].calls[s] = Resolve(NoCall, "conn", proc[ClientProc].connection)

\* the call of slot t is handed connection c in this step: its connect()
\* resolves with c, or its getChannel() goes on to c.createChannel()
Receives(t, c) ==
  \/ proc'[ClientProc].calls[t] = Resolve(NoCall, "conn", c)
  \/ /\ proc'[ClientProc].calls[t].pc = "create"
     /\ proc'[ClientProc].calls[t].arg = c

Waiting(st) == {t \in Slots : st.calls[t].pc = "wait"}

\* the attempt of the loop in slot s ends in this step
AttemptEnds(s) ==
  /\ proc[ClientProc].calls[s].pc = "attempt"
  /\ proc'[ClientProc].calls[s].pc # "attempt"

\* C17: at most one loop runs; a connect() that begins while a loop runs and
\* no connection is held becomes a waiter and starts no attempt; when the
\* loop's attempt succeeds the initiating call and every waiter are handed
\* the same new connection; when the loop ends with the exhaustion error
\* every waiter is rejected with that error in the same step.
C17_WaitersShareOutcome ==
  /\ [](Cardinality({s \in Slots :
           proc[ClientProc].calls[s].pc \in {"attempt", "sleep"}}) <= 1)
  /\ [][\A s \in Slots :
          (/\ ConnectBegins(s)
           /\ LoopRunning(proc[ClientProc])
           /\ proc'[ClientProc].connection = 0)
            => /\ proc'[ClientProc].calls[s].pc = "wait"
               /\ \A t \in Slots : proc'[ClientProc].calls[t].pc = "attempt"
                                      => proc[ClientProc].calls[t].pc = "attempt"
               /\ \A c \in ConnIds : conns'[ClientProc][c] = "open"
                                       => conns[ClientProc][c] = "open"]_vars
  /\ [][\A s \in Slots :
          (AttemptEnds(s) /\ proc'[ClientProc].connection # 0)
            => /\ conns[ClientProc][proc'[ClientProc].connection] = "none"
               /\ \A t \in Waiting(proc[ClientProc]) \cup {s} :
                    Receives(t, proc'[ClientProc].connection)]_vars
  /\ [][\A s \in Slots :
          (AttemptEnds(s) /\ proc'[ClientProc].calls[s].res = "exhausted")
            => \A t \in Waiting(proc[ClientProc]) :
                 proc'[ClientProc].calls[t] = Reject(NoCall, "exhausted")]_vars

\* a loop and a waiter of it have been handed the same connection, or have
\* been rejected with the exhaustion error, in one step
C17_Witness ==
  /\ \E s, t \in Slots :
       /\ s # t
       /\ proc[ClientProc].calls[s].pc = "done"
       /\ proc[ClientProc].calls[t] = proc[ClientProc].calls[s]
       /\ proc[ClientProc].calls[s].res = "conn"
       /\ proc[ClientProc].calls[s].val = proc[ClientProc].connection

\* channel h, on an open connection that stays open, stops being open in
\* this step: it has emitted 'error' or 'close'
ChannelEvent(h) ==
  /\ chans[ClientProc][h].state = "open"
  /\ chans'[ClientProc][h].state # "open"
  /\ conns[ClientProc][chans[ClientProc][h].conn] = "open"
  /\ conns'[ClientProc][chans[ClientProc][h].conn] = "open"

\* C18: a step in which a channel emits 'error' or 'close' while its
\* connection stays open leaves the manager without channel, with the same
\* connection, isConnecting and retryCount, and starts no connect attempt;
\* and a getChannel() that begins while a connection but no channel is held
\* goes on to createChannel() on that connection.
C18_ChannelLossOnly ==
  /\ [][\A h \in ChanIds :
          ChannelEvent(h)
            => /\ proc'[ClientProc].channel = 0
               /\ proc'[ClientProc].connection = proc[ClientProc].connection
               /\ proc'[ClientProc].isConnecting = proc[ClientProc].isConnecting
               /\ proc'[ClientProc].retryCount = proc[ClientProc].retryCount
               /\ \A s \in Slots : proc'[ClientProc].calls[s].pc = "attempt"
                                      => proc[ClientProc].calls[s].pc = "attempt"]_vars
  /\ [][\A s \in CallerSlots :
          (/\ ConnectBegins(s)
           /\ proc'[ClientProc].calls[s].op = "getChannel"
           /\ proc[ClientProc].channel = 0
           /\ proc[ClientProc].connection # 0)
            => /\ proc'[ClientProc].calls[s].pc = "create"
               /\ proc'[ClientProc].calls[s].arg = proc[ClientProc].connection]_vars
  /\ [][\A s \in Slots :
          (/\ proc[ClientProc].calls[s].pc = "create"
           /\ proc'[ClientProc].calls[s].res = "chan")
            => LET h == proc'[ClientProc].calls[s].val
               IN /\ chans[ClientProc][h].state = "none"
                  /\ chans'[ClientProc][h] =
                       [state |-> "open", conn |-> proc[ClientProc].calls[s].arg]
                  /\ proc'[ClientProc].channel = h]_vars

\* after a channel was lost on the held connection, which is still open,
\* getChannel() has created another channel on that connection
C18_Witness ==
  LET st == proc[ClientProc]
  IN /\ st.connection # 0
     /\ conns[ClientProc][st.connection] = "open"
     /\ st.channel # 0
     /\ ChanLive(ClientProc, st.channel)
     /\ chans[ClientProc][st.channel].conn = st.connection
     /\ \E h \in ChanIds : /\ chans[ClientProc][h].state = "closed"
                           /\ chans[ClientProc][h].conn = st.connection
     /\ ~st.isClosed

\* the wait after the n-th consecutive failure, by doubling:
\* initialRetryDelay after the first, twice the previous wait after each
\* further one, cut off at maxRetryDelay
RECURSIVE WaitAfter(_)
WaitAfter(n) ==
  IF n <= 1 THEN Min(initialRetryDelay, maxRetryDelay)
  ELSE Min(2 * WaitAfter(n - 1), maxRetryDelay)

\* C19: a loop in its backoff wait after the n-th consecutive failure
\* (n = retryCount) waits WaitAfter(n); calculateBackoff(n) is WaitAfter(n),
\* and so never above maxRetryDelay, for every n up to MaxBackoffSteps; and
\* a successful attempt leaves retryCount at zero.
C19_BackoffDelay ==
  /\ [](\A s \in Slots :
          proc[ClientProc].calls[s].pc = "sleep"
            => /\ proc[ClientProc].retryCount >= 1
               /\ proc[ClientProc].calls[s].arg = WaitAfter(proc[ClientProc].retryCount))
  /\ [](\A n \in 1..MaxBackoffSteps :
          /\ calculateBackoff(n) = WaitAfter(n)
          /\ calculateBackoff(n) <= maxRetryDelay)
  /\ [][\A s \in Slots :
          (proc[ClientProc].calls[s].pc = "sleep"
             /\ proc'[ClientProc].calls[s].pc = "sleep")
            => proc'[ClientProc].calls[s].arg = proc[ClientProc].calls[s].arg]_vars
  /\ [][\A s \in Slots :
          (AttemptEnds(s) /\ proc'[ClientProc].calls[s].pc = "sleep")
            => proc'[ClientProc].retryCount = proc[ClientProc].retryCount + 1]_vars
  /\ [][\A s \in Slots :
          (AttemptEnds(s) /\ proc'[ClientProc].connection # 0)
            => proc'[ClientProc].retryCount = 0]_vars

\* a loop waits after its second consecutive failure, twice as long as
\* after the first
C19_Witness ==
  \E s \in Slots :
    /\ proc[ClientProc].calls[s].pc = "sleep"
    /\ proc[ClientProc].retryCount = 2
    /\ proc[ClientProc].calls[s].arg = 2 * initialRetryDelay

\* slot s runs close(): it begins it, or awaits one of its two closes
InClose(s) ==
  \/ /\ Begins(s)
     /\ \/ proc'[ClientProc].calls[s].pc \in {"closeCh", "closeConn"}
        \/ proc'[ClientProc].calls[s].res = "closed"
  \/ proc[ClientProc].calls[s].pc \in {"closeCh", "closeConn"}

\* slot s returns from close() in this step
CloseReturns(s) ==
  /\ InClose(s)
  /\ proc'[ClientProc].calls[s].pc = "done"

\* C20: a step of close() either goes on to one of its closes or returns
\* normally (it never settles with an error); close() closes the channel it
\* holds before the connection; and when it returns the manager holds
\* neither a channel nor a connection.
C20_CloseLeavesNothing ==
  /\ [][\A s \in Slots :
          InClose(s)
            => \/ proc'[ClientProc].calls[s].pc \in {"closeCh", "closeConn"}
               \/ proc'[ClientProc].calls[s] = Resolve(NoCall, "closed", 0)]_vars
  /\ [][\A s \in Slots :
          (Begins(s) /\ InClose(s) /\ proc[ClientProc].channel # 0)
            => /\ proc'[ClientProc].calls[s].pc = "closeCh"
               /\ proc'[ClientProc].calls[s].arg = proc[ClientProc].channel]_vars
  /\ [][\A s \in Slots :
          (proc[ClientProc].calls[s].pc = "closeConn"
             /\ proc'[ClientProc].calls[s].pc = "closeCh") => FALSE]_vars
  /\ [][\A s \in Slots :
          CloseReturns(s)
            => /\ proc'[ClientProc].connection = 0
               /\ proc'[ClientProc].channel = 0]_vars

(***************************************************************************)
(* Properties of the topology                                              *)
(***************************************************************************)
\* every exchange, queue and binding of setupTopology is declared
TopologyComplete(t) ==
  /\ DeclareExchanges(NoTopology).exchanges \subseteq t.exchanges
  /\ DeclareQueues(NoTopology).queues \subseteq t.queues
  /\ DeclareBindings(NoTopology).bindings \subseteq t.bindings

\* process p calls publishMessage in this step
IssuesPublish(p) ==
  \/ p = CarbonProc /\ ing'.created # ing.created
  \/ p = WeatherProc /\ wx'.created # wx.created

\* the await of channel.consume of process p settles in this step
IssuesConsume(p) ==
  /\ p \in ConsumerProcs
  /\ ~subs[p].active
  /\ subs'[p].active

\* main() of p is past its await of setupTopology
PastTopology(p) ==
  IF p = CarbonProc THEN ing.mainPc = "running"
  ELSE IF p = WeatherProc THEN wx.mainPc = "running"
  ELSE con[p].mainPc \in {"prefetch", "consume", "running"}

\* C21: the topology is declared in the order exchanges, queues, bindings,
\* and when a process calls publishMessage or has its channel.consume
\* settle, its setupTopology has returned and every exchange, queue and
\* binding is declared.
C21_TopologyBeforeUse ==
  /\ [](topo.queues # {} => DeclareExchanges(NoTopology).exchanges \subseteq topo.exchanges)
  /\ [](topo.bindings # {} => DeclareQueues(NoTopology).queues \subseteq topo.queues)
  /\ [][\A p \in AppProcs :
          (IssuesPublish(p) \/ IssuesConsume(p))
            => PastTopology(p) /\ TopologyComplete(topo)]_vars

\* the weather ingester has published its first envelope
C21_Witness ==
  /\ wx.created = 1
  /\ Len(queues[QUEUES_WEATHER]) = 1
  /\ TopologyComplete(topo)

FeedQueues == {QUEUES_ALL, QUEUES_CARBON, QUEUES_WEATHER}

\* routing keys of every shape: the program's, one it does not name, a
\* single segment and the empty key
SomeKeys == ROUTING_KEYS \cup {CARBON_REGIONAL, <<"other">>, <<>>}

\* C22: once the topology is complete, feeds.dlx is a fanout exchange, each
\* feed queue has feeds.dlx as its only dead-letter exchange and feeds.dlq
\* is bound to feeds.dlx with the empty pattern; a message of any routing key
\* rejected without requeue from any feed queue is appended to feeds.dlq and
\* to no other queue; and every run of handleMessage that nacks without
\* requeue appends its message to feeds.dlq.
C22_DeadLetterRoute ==
  /\ [](TopologyComplete(topo) =>
          /\ \A e \in topo.exchanges : e.name = EXCHANGES_DLX => e.type = "fanout"
          /\ \A q \in FeedQueues :
               {d.deadLetterExchange : d \in {x \in topo.queues : x.name = q}}
                 = {EXCHANGES_DLX}
          /\ [queue |-> QUEUES_DLQ, exchange |-> EXCHANGES_DLX, pattern |-> <<>>]
               \in topo.bindings
          /\ \A q \in FeedQueues : \A key \in SomeKeys :
               LET msg == Message(key, 1, CARBON_INGESTER, Garbage)
                   after == DeadLetter(topo, queues, q, msg)
               IN /\ after[QUEUES_DLQ] =
                       Append(queues[QUEUES_DLQ],
                              [msg EXCEPT !.death = [reason |-> "rejected", queue |-> q]])
                  /\ \A r \in FeedQueues : after[r] = queues[r])
  /\ [][(Handles /\ lastHandled'.decision = "nack" /\ ~lastHandled'.requeue)
          => TopologyComplete(topo) /\ DeadLetters]_vars

\* a generation message rejected from feeds.carbon lies in feeds.dlq
C22_Witness ==
  /\ TopologyComplete(topo)
  /\ \E i \in 1..Len(queues[QUEUES_DLQ]) :
       /\ queues[QUEUES_DLQ][i].key = CARBON_GENERATION
       /\ queues[QUEUES_DLQ][i].death = [reason |-> "rejected", queue |-> QUEUES_CARBON]

\* the pattern feed queue q is bound to the topic exchange with
PatternOf(q) ==
  IF q = QUEUES_ALL THEN BINDINGS_ALL
  ELSE IF q = QUEUES_CARBON THEN BINDINGS_CARBON
  ELSE BINDINGS_WEATHER

\* the messages this step appends to a feed queue
NewInFeeds ==
  {queues'[q][Len(queues'[q])] :
     q \in {r \in FeedQueues : Len(queues'[r]) = Len(queues[r]) + 1}}

\* an ingester publishes an envelope in this step
PublishesEnvelope ==
  /\ \E p \in IngesterProcs : IssuesPublish(p)
  /\ queues' # queues

\* C23: with the topology complete, a feed queue receives a published
\* envelope exactly when its binding pattern matches the envelope's type:
\* the carbon types go to feeds.all and feeds.carbon only, feed.weather.current
\* to feeds.all and feeds.weather only; * stands for exactly one segment and
\* # for any number of them.
C23_RoutedIffMatches ==
  /\ [](TopologyComplete(topo) =>
          /\ Route(topo, EXCHANGES_TOPIC, CARBON_INTENSITY) = {QUEUES_ALL, QUEUES_CARBON}
          /\ Route(topo, EXCHANGES_TOPIC, CARBON_GENERATION) = {QUEUES_ALL, QUEUES_CARBON}
          /\ Route(topo, EXCHANGES_TOPIC, WEATHER_CURRENT) = {QUEUES_ALL, QUEUES_WEATHER}
          /\ \A q \in FeedQueues : \A key \in SomeKeys :
               q \in Route(topo, EXCHANGES_TOPIC, key) <=> Matches(PatternOf(q), key))
  /\ [](/\ Matches(BINDINGS_ALL, <<"feed">>)
        /\ Matches(BINDINGS_ALL, <<"feed", "carbon", "intensity", "extra">>)
        /\ ~Matches(BINDINGS_ALL, <<"other", "carbon">>)
        /\ ~Matches(BINDINGS_CARBON, <<"feed", "carbon">>)
        /\ ~Matches(BINDINGS_CARBON, <<"feed", "carbon", "intensity", "extra">>)
        /\ Matches(BINDINGS_CARBON, CARBON_REGIONAL)
        /\ Matches(BINDINGS_WEATHER, WEATHER_FORECAST)
        /\ ~Matches(BINDINGS_WEATHER, CARBON_INTENSITY))
  /\ [][(PublishesEnvelope /\ TopologyComplete(topo))
          => /\ Cardinality(NewInFeeds) = 1
             /\ \A m \in NewInFeeds : \A q \in FeedQueues :
                  /\ m.key = JSONparse(m.body).type
                  /\ IF Matches(PatternOf(q), JSONparse(m.body).type)
                       THEN queues'[q] = Append(queues[q], m)
                       ELSE queues'[q] = queues[q]]_vars

\* a weather envelope lies in feeds.all and feeds.weather, not in feeds.carbon
C23_Witness ==
  /\ Len(queues[QUEUES_ALL]) = 1
  /\ JSONparse(queues[QUEUES_ALL][1].body).type = WEATHER_CURRENT
  /\ queues[QUEUES_WEATHER] = queues[QUEUES_ALL]
  /\ queues[QUEUES_CARBON] = <<>>

(***************************************************************************)
(* Properties of the two ingesters                                         *)
(***************************************************************************)
\* C24: every message an ingester publishes is handed to the topic exchange
\* with its envelope's type as routing key, its envelope's id as messageId,
\* its envelope's source as appId and delivery mode 2 (persistent).
C24_PublishProperties ==
  [][PublishesEnvelope
       => /\ Cardinality(NewInFeeds) <= 1
          /\ \A m \in NewInFeeds :
               /\ JSONparses(m.body)
               /\ m.key = JSONparse(m.body).type
               /\ m.messageId = JSONparse(m.body).id
               /\ m.appId = JSONparse(m.body).source
               /\ m.deliveryMode = 2
               /\ queues' = Publish(topo, queues, EXCHANGES_TOPIC, m)]_vars

\* a generation message of the carbon ingester lies in feeds.carbon
C24_Witness ==
  \E i \in 1..Len(queues[QUEUES_CARBON]) :
    LET m == queues[QUEUES_CARBON][i]
    IN /\ m.key = CARBON_GENERATION
       /\ m.appId = CARBON_INGESTER
       /\ m.messageId = JSONparse(m.body).id
       /\ m.messageId > 0

\* the fetch of carbon source src and the publish of its envelope succeed
CarbonSucceeds(src) ==
  /\ ing.pc[src] = "fetching"
  /\ ing'.pc[src] # "fetching"
  /\ ing'.created # ing.created
  /\ queues' # queues

\* the fetch of the weather source and the publish of its envelope succeed
WeatherSucceeds ==
  /\ wx.pc = "fetching"
  /\ wx'.pc # "fetching"
  /\ wx'.created # wx.created
  /\ queues' # queues

\* C25: when the fetch and the publish of a source succeed, its failure
\* counter is zero afterwards and, unless the ingester is shutting down, its
\* next fetch waits for the poll-interval timer, set to the nominal interval
\* of the source; a fetch that follows a success starts from that timer.
C25_SuccessResets ==
  /\ [][\A src \in Sources :
          CarbonSucceeds(src)
            => /\ ing'.failures[src] = 0
               /\ IF ing.isShuttingDown
                    THEN ing'.pc[src] = "stopped"
                    ELSE /\ ing'.pc[src] = "timer"
                         /\ ing'.delay[src] = PollInterval(src)]_vars
  /\ [][WeatherSucceeds
          => /\ wx'.failures = 0
             /\ IF wx.isShuttingDown
                  THEN wx'.pc = "stopped"
                  ELSE /\ wx'.pc = "timer"
                       /\ wx'.delay = WCONFIG_pollInterval]_vars
  /\ [][\A src \in Sources :
          (ing.pc[src] = "timer" /\ ing'.pc[src] # "timer")
            => /\ ing'.pc[src] \in {"fetching", "stopped"}
               /\ ing.delay[src] = PollInterval(src)
               /\ ing'.failures[src] = 0]_vars
  /\ [][(wx.pc = "timer" /\ wx'.pc # "timer")
          => /\ wx'.pc \in {"fetching", "stopped"}
             /\ wx.delay = WCONFIG_pollInterval
             /\ wx'.failures = 0]_vars

\* the generation source has published and waits for its poll interval
C25_Witness ==
  /\ ing.pc["generation"] = "timer"
  /\ ing.delay["generation"] = CONFIG_generationPollInterval
  /\ ing.failures["generation"] = 0
  /\ \E i \in 1..Len(queues[QUEUES_ALL]) : queues[QUEUES_ALL][i].key = CARBON_GENERATION

\* a poll of carbon source src fails: the fetch or the publish throws
CarbonFails(src) ==
  /\ ing.pc[src] = "fetching"
  /\ ing'.pc[src] # "fetching"
  /\ ~CarbonSucceeds(src)

\* a poll of the weather source fails with an error that is no RateLimitError
WeatherFails ==
  /\ wx.pc = "fetching"
  /\ wx'.pc # "fetching"
  /\ ~WeatherSucceeds
  /\ wx'.error # "RateLimitError"

\* C26: a failed poll adds one to the failure counter of its source and
\* sleeps for the backoff computed from the new count; when the sleep ends
\* the same fetch is issued again (or nothing, under shutdown); and the
\* poll-interval timer is set by a successful poll only.
C26_FailureBacksOff ==
  /\ [][\A src \in Sources :
          CarbonFails(src)
            => /\ ing'.failures[src] = ing.failures[src] + 1
               /\ ing'.pc[src] = "backoff"
               /\ ing'.delay[src] = ingesterBackoff(ing'.failures[src])]_vars
  /\ [][WeatherFails
          => /\ wx'.failures = wx.failures + 1
             /\ wx'.pc = "backoff"
             /\ wx'.delay = weatherBackoff(wx'.failures)]_vars
  /\ [][\A src \in Sources :
          (ing.pc[src] = "backoff" /\ ing'.pc[src] # "backoff")
            => /\ ing'.pc[src] \in {"fetching", "stopped"}
               /\ ing'.failures[src] = ing.failures[src]]_vars
  /\ [][(wx.pc = "backoff" /\ wx'.pc # "backoff")
          => /\ wx'.pc \in {"fetching", "stopped"}
             /\ wx'.failures = wx.failures]_vars
  /\ [][\A src \in Sources :
          (ing.pc[src] # "timer" /\ ing'.pc[src] = "timer") => CarbonSucceeds(src)]_vars
  /\ [][(wx.pc # "timer" /\ wx'.pc = "timer") => WeatherSucceeds]_vars

\* the intensity source sleeps after its second consecutive failure
C26_Witness ==
  /\ ing.pc["intensity"] = "backoff"
  /\ ing.failures["intensity"] = 2
  /\ ing.delay["intensity"] = ingesterBackoff(2)
  /\ ing.delay["intensity"] # CONFIG_intensityPollInterval

\* C27: over a run of consecutive failures of one source the backoff
\* delays never decrease and never exceed the source's maxRetryDelay
\* (300000 ms for the carbon sources, 600000 ms for the weather source):
\* for every count up to MaxBackoffSteps, and for every delay a poll sleeps.
C27_BackoffMonotone ==
  /\ [](/\ CONFIG_maxRetryDelay = 300000
        /\ WCONFIG_maxRetryDelay = 600000
        /\ \A n \in 1..MaxBackoffSteps :
             /\ ingesterBackoff(n) <= ingesterBackoff(n + 1)
             /\ ingesterBackoff(n) <= CONFIG_maxRetryDelay
             /\ weatherBackoff(n) <= weatherBackoff(n + 1)
             /\ weatherBackoff(n) <= WCONFIG_maxRetryDelay)
  /\ [](\A src \in Sources :
          ing.pc[src] = "backoff"
            => /\ ing.delay[src] = ingesterBackoff(ing.failures[src])
               /\ ing.delay[src] <= CONFIG_maxRetryDelay)
  /\ [](wx.pc = "backoff"
          => /\ wx.delay = weatherBackoff(wx.failures)
             /\ wx.delay <= WCONFIG_maxRetryDelay)
  /\ [][\A src \in Sources :
          (CarbonFails(src) /\ ing.failures[src] >= 1)
            => ing'.delay[src] >= ingesterBackoff(ing.failures[src])]_vars
  /\ [][(WeatherFails /\ wx.failures >= 1)
          => wx'.delay >= weatherBackoff(wx.failures)]_vars

\* the weather source sleeps after its second consecutive failure, longer
\* than after the first
C27_Witness ==
  /\ wx.pc = "backoff"
  /\ wx.failures = 2
  /\ wx.delay > weatherBackoff(1)
  /\ wx.delay <= WCONFIG_maxRetryDelay

\* C28: the first failed poll of a source after a success or after startup
\* (its failure counter is zero) sleeps for the source's baseRetryDelay:
\* 5000 ms for the carbon sources, 10000 ms for the weather source.
C28_FirstDelayIsBase ==
  /\ [](CONFIG_baseRetryDelay = 5000 /\ WCONFIG_baseRetryDelay = 10000)
  /\ [][\A src \in Sources :
          (CarbonFails(src) /\ ing.failures[src] = 0)
            => ing'.delay[src] = CONFIG_baseRetryDelay]_vars
  /\ [][(WeatherFails /\ wx.failures = 0)
          => wx'.delay = WCONFIG_baseRetryDelay]_vars

\* the fetch of the weather source is answered with status 429
WeatherRateLimited ==
  /\ wx.pc = "fetching"
  /\ wx'.pc # "fetching"
  /\ wx'.error = "RateLimitError"

\* C29: a fetch answered with 429 leaves the failure counter as it is and
\* sleeps for rateLimitDelay (60000 ms) whatever the counter holds; when the
\* sleep ends the fetch is issued again (or nothing, under shutdown), with
\* the counter still unchanged; and status 429 leads nowhere else.
C29_RateLimitCooldown ==
  /\ [](WCONFIG_rateLimitDelay = 60000 /\ fetchWeather(429) = "RateLimitError")
  /\ [][WeatherRateLimited
          => /\ wx'.pc = "cooldown"
             /\ wx'.delay = WCONFIG_rateLimitDelay
             /\ wx'.failures = wx.failures
             /\ wx'.created = wx.created
             /\ queues' = queues]_vars
  /\ [][(wx.pc = "cooldown" /\ wx'.pc # "cooldown")
          => /\ wx'.pc \in {"fetching", "stopped"}
             /\ wx'.failures = wx.failures]_vars
  /\ [][(wx.pc # "cooldown" /\ wx'.pc = "cooldown") => WeatherRateLimited]_vars

\* the weather source is rate-limited after a generic failure: it waits the
\* cooldown with its counter at one
C29_Witness ==
  /\ wx.pc = "cooldown"
  /\ wx.error = "RateLimitError"
  /\ wx.failures = 1
  /\ wx.delay = WCONFIG_rateLimitDelay

\* the fetch of the weather source is answered with status 401
WeatherUnauthorized ==
  /\ wx.pc = "fetching"
  /\ wx'.pc # "fetching"
  /\ wx'.error = fetchWeather(401)

\* C30: a fetch answered with 401 ends the weather source: the process exits
\* with a non-zero code, and no sleep or timer that leads to another fetch
\* is pending.
C30_AuthFailureTerminal ==
  [][WeatherUnauthorized
       => /\ wx'.mainPc = "exit1"
          /\ wx'.pc \notin {"backoff", "cooldown", "timer", "fetching"}]_vars

\* the cycle of carbon source src moves on from its fetch or from its backoff
\* wait: the poll succeeds, fails, or is retried after the wait
CycleStep(src) ==
  /\ ing.pc[src] \in {"fetching", "backoff"}
  /\ ing'.pc[src] # ing.pc[src]

\* C31: a step of one carbon source's cycle (its poll succeeds or fails, or
\* its backoff wait ends and the fetch is retried) leaves the other source's
\* failure counter, its position in its own cycle and its pending delay
\* unchanged, and both flags of the process as well.
C31_IndependentCycles ==
  [][\A src \in Sources : \A other \in Sources \ {src} :
       CycleStep(src)
         => /\ ing'.failures[other] = ing.failures[other]
            /\ ing'.pc[other] = ing.pc[other]
            /\ ing'.delay[other] = ing.delay[other]
            /\ ing'.isShuttingDown = ing.isShuttingDown
            /\ ing'.mainPc = ing.mainPc]_vars

\* the intensity cycle waits after its second failure while the generation
\* cycle waits for its poll interval with no failure counted
C31_Witness ==
  /\ ing.pc["intensity"] = "backoff"
  /\ ing.failures["intensity"] = 2
  /\ ing.pc["generation"] = "timer"
  /\ ing.failures["generation"] = 0
  /\ ing.delay["generation"] = CONFIG_generationPollInterval

C33_ShutdownCancelsTimers ==
  /\ [][ing.isShuttingDown
          => /\ \A src \in Sources :
                  /\ ing.pc[src] \in {"backoff", "timer"} => ing'.pc[src] = ing.pc[src]
                  /\ ing'.pc[src] = "fetching" => ing.pc[src] = "fetching"
             /\ ing'.created = ing.created]_vars
  /\ [][wx.isShuttingDown
          => /\ wx.pc \in {"backoff", "cooldown", "timer"} => wx'.pc = wx.pc
             /\ wx'.pc = "fetching" => wx.pc = "fetching"
             /\ wx'.created = wx.created]_vars

(***************************************************************************)
(* Properties of the consumers' shutdown and acknowledgements              *)
(***************************************************************************)
\* an await of close() of p's manager settles in this step
ManagerCloses(p) ==
  \E s \in Slots :
    /\ proc[p].calls[s].pc \in {"closeCh", "closeConn"}
    /\ proc'[p].calls[s].pc # proc[p].calls[s].pc

\* channel h of p can carry a delivery after this step
ChanLiveNext(p, h) ==
  /\ h \in ChanIds
  /\ chans'[p][h].state = "open"
  /\ conns'[p][chans'[p][h].conn] = "open"

\* C34: when close() of a consumer's manager closes the channel of the
\* consumer's subscription, or its connection, the subscription has been
\* cancelled before: it is not active.
C34_CancelBeforeClose ==
  [][\A p \in ConsumerProcs :
       (/\ con[p].isShuttingDown
        /\ ManagerCloses(p)
        /\ ChanLive(p, subs[p].chan)
        /\ ~ChanLiveNext(p, subs[p].chan))
         => ~subs[p].active]_vars

\* p's handler runs for a delivery in this step
HandledBy(p) == lastHandled'.n = lastHandled.n + 1 /\ lastHandled'.proc = p

\* the messages of feeds.carbon that wait in the queue or are held by an
\* instance
InFlight ==
  Len(queues[QUEUES_CARBON]) + Len(unacked[AggProc]) + Len(unacked[AggProc2])

\* C35: with two aggregator instances on feeds.carbon, each with prefetch 1,
\* no instance ever holds more than one unacknowledged message; a message
\* that leaves the queue goes to one instance only; the instance that handles
\* a message handles the one it holds, and the message then leaves both the
\* queue and the instances, so that it is handled by no other instance: the
\* messages handled plus those waiting or held never exceed those published.
C35_CompetingConsumers ==
  /\ [](\A p \in Aggregators : Len(unacked[p]) <= 1)
  /\ [](lastHandled.n + InFlight <= sent)
  /\ [][(Len(queues'[QUEUES_CARBON]) < Len(queues[QUEUES_CARBON]))
         => \E p \in Aggregators :
              /\ unacked'[p] = Append(unacked[p], Head(queues[QUEUES_CARBON]))
              /\ \A o \in Aggregators \ {p} : unacked'[o] = unacked[o]]_vars
  /\ [][\A p \in Aggregators :
          HandledBy(p)
            => /\ unacked[p] # <<>>
               /\ lastHandled'.msg = Head(unacked[p])
               /\ unacked'[p] = Tail(unacked[p])
               /\ \A o \in Aggregators \ {p} : unacked'[o] = unacked[o]
               /\ queues'[QUEUES_CARBON] = queues[QUEUES_CARBON]]_vars

\* both instances are subscribed, two messages were published and each
\* instance has processed one of them; nothing waits or is held
C35_Witness ==
  /\ \A p \in Aggregators : SubLive(p) /\ subs[p].prefetch = 1
  /\ sent = MaxSent
  /\ \E i \in 1..MaxIds : \A p \in Aggregators : effects[p][i] = 1
  /\ InFlight = 0

(***************************************************************************)
(* Properties of the manager under every interleaving                      *)
(***************************************************************************)
\* the connect() call of slot s has been made and has not settled
ConnectPending(s) ==
  /\ proc[ClientProc].calls[s].op = "connect"
  /\ proc[ClientProc].calls[s].pc \in {"wait", "attempt", "sleep"}

\* C36: every call of connect() eventually settles, with a connection or
\* with an error: no caller stays suspended forever.
C36_ConnectCompletes ==
  \A s \in CallerSlots : ConnectPending(s) ~> ~ConnectPending(s)

\* the slots whose call is inside the retry loop of connect()
LoopSlots(st) == {s \in Slots : st.calls[s].pc \in {"attempt", "sleep"}}

\* C37: in every reachable state of the manager, isConnecting implies that
\* no connection is held, retryCount lies between 0 and maxRetries + 1 and is
\* 0 whenever a connection is held, and at most one retry loop is running.
C37_ManagerInvariant ==
  LET st == proc[ClientProc]
  IN /\ st.isConnecting => st.connection = 0
     /\ st.retryCount \in 0..(maxRetries + 1)
     /\ st.connection # 0 => st.retryCount = 0
     /\ Cardinality(LoopSlots(st)) <= 1

\* a loop that handleDisconnect started has failed at least once and is
\* running after close() was called, while a caller waits for its outcome
C37_Witness ==
  LET st == proc[ClientProc]
  IN /\ st.isConnecting /\ st.isClosed
     /\ LoopSlots(st) = {BgSlot}
     /\ st.retryCount >= 1
     /\ \E s \in CallerSlots : st.calls[s].pc = "wait"

\* C38: for every delivery handed to handleMessage, the handler makes
\* exactly one acknowledgement call, channel.ack or channel.nack without
\* requeue, and returns: the delivery leaves the consumer's unacknowledged
\* deliveries in the step that handles it.  No delivery meets the early
\* return for a missing channel.
C38_OneDecision ==
  /\ [][\A p \in ConsumerProcs :
          HandledBy(p)
            => /\ Len(lastHandled'.calls) = 1
               /\ lastHandled'.calls[1] \in {"ack", "nack"}
               /\ lastHandled'.calls[1] = lastHandled'.decision
               /\ lastHandled'.decision = "nack" => ~lastHandled'.requeue
               /\ con'[p].mainPc # "crashed"
               /\ unacked'[p] = Tail(unacked[p])]_vars
  /\ [](\A p \in ConsumerProcs : unacked[p] # <<>> => con[p].channel # 0)

\* a consumer has handled two deliveries: it processed and acked the first
\* and nacked the second, which is in feeds.dlq
C38_Witness ==
  /\ lastHandled.n = 2
  /\ lastHandled.calls = <<"nack">>
  /\ \E id \in 1..MaxIds : effects[lastHandled.proc][id] = 1
  /\ Len(queues[QUEUES_DLQ]) = 1
  /\ unacked[lastHandled.proc] = <<>>

(***************************************************************************)
(* Properties of the poll cycles as a whole                                *)
(***************************************************************************)
\* the states of a source in which an invocation is suspended or the poll
\* timer is armed
InCycle == {"fetching", "backoff", "cooldown", "timer"}

\* C39: each source has at most one poll cycle in progress: the event loop
\* holds one suspended invocation or one armed timer of a source while its
\* cycle runs and none otherwise, and a fetch of a source starts only from
\* the start of polling in main(), from the end of that source's backoff or
\* cooldown sleep, or from its poll timer, never while a fetch of it is
\* pending.
C39_OneCyclePerSource ==
  /\ [](\A src \in Sources : ing.cycles[src] = IF ing.pc[src] \in InCycle THEN 1 ELSE 0)
  /\ [](wx.cycles = IF wx.pc \in InCycle THEN 1 ELSE 0)
  /\ [][\A src \in Sources :
          (ing'.pc[src] = "fetching" /\ ing.pc[src] # "fetching")
            => /\ ing.pc[src] \in {"idle", "backoff", "timer"}
               /\ ing'.cycles[src] = 1]_vars
  /\ [][(wx'.pc = "fetching" /\ wx.pc # "fetching")
         => /\ wx.pc \in {"idle", "backoff", "cooldown", "timer"}
            /\ wx'.cycles = 1]_vars

\* the intensity cycle has published and waits on its timer while the
\* generation cycle has a fetch pending: one cycle each
C39_Witness ==
  /\ ing.pc["intensity"] = "timer"
  /\ ing.created >= 1
  /\ ing.pc["generation"] = "fetching"
  /\ \A src \in Sources : ing.cycles[src] = 1
  /\ ~ing.isShuttingDown

\* no termination signal has reached the ingester p, and it is polling
Polling(p) ==
  IF p = CarbonProc THEN ing.mainPc = "running" /\ ~ing.isShuttingDown
  ELSE wx.mainPc = "running" /\ ~wx.isShuttingDown

====
